---- MODULE Spec2Model ----
(***************************************************************************)
(* Teltonika telemetry gateway (rcpreda/telem-test).                       *)
(*                                                                         *)
(* Part 1: the Codec 8 / Codec 8 Extended decoder (codec8.js) as operators *)
(*         over byte sequences.                                            *)
(* Part 2: the per-connection TCP session handler (server/server.js) and   *)
(*         the persistence calls it makes (models.js), as a state machine. *)
(*                                                                         *)
(* Integers wider than 16 bits (preamble, dataFieldLength, crc, 4- and     *)
(* 8-byte IO values, the 64-bit timestamp) are kept as their big-endian    *)
(* byte digits: TLC's integers are 32-bit and cannot hold them.            *)
(*                                                                         *)
(* Style: The({ e : x \in {v} }) is "let x be the value of v in e".  It    *)
(* fixes a value once, where LET would have TLC compute it again at every  *)
(* use.                                                                    *)
(***************************************************************************)
EXTENDS Integers, Sequences, FiniteSets, TLC

(***************************************************************************)
(* Small helpers                                                           *)
(***************************************************************************)
The(S) == CHOOSE x \in S : TRUE

Max(a, b) == IF a >= b THEN a ELSE b

Min(a, b) == IF a <= b THEN a ELSE b

\* JavaScript null where a string or Buffer is expected (an IMEI, a timestamp).
Null == <<>>

Zeros(n) == [i \in 1..n |-> 0]

\* Comparison of two equally long big-endian digit strings.
BytesGreater(a, b) ==
    \E i \in 1..Len(a) : a[i] > b[i] /\ \A j \in 1..(i - 1) : a[j] = b[j]

(***************************************************************************)
(* Part 1 - Codec8Decoder                                                  *)
(*                                                                         *)
(* A reader r is the decoder object's mutable part:                        *)
(*   off     this.offset                                                   *)
(*   err     an Error has been thrown (decoding stops; decodeCodec8's      *)
(*           catch turns it into {error})                                  *)
(*   maxEnd  history: the largest offset + n of any read that was let      *)
(*           through to the buffer                                         *)
(* Every read returns [r |-> reader after, v |-> value].                   *)
(***************************************************************************)
NewReader == [off |-> 0, err |-> FALSE, maxEnd |-> 0]

Throw(r) == [r EXCEPT !.err = TRUE]

Advance(r, n) == [off |-> r.off + n, err |-> r.err, maxEnd |-> Max(r.maxEnd, r.off + n)]

\* Buffer.slice(start, end): clamps to the buffer, never throws.
BufSlice(data, start, end) == SubSeq(data, start + 1, Min(end, Len(data)))

\* Mutant of readBytes: the bounds check is missing, slice clamps silently.
readBytesUnchecked(data, r0, n0) ==
    The({ IF r.err THEN [r |-> r, v |-> <<>>]
          ELSE [r |-> Advance(r, n), v |-> BufSlice(data, r.off, r.off + n)] :
          r \in {r0}, n \in {n0} })

readBytes(data, r0, n0) ==
    The({ IF r.err THEN [r |-> r, v |-> <<>>]
          ELSE IF r.off + n > Len(data) THEN [r |-> Throw(r), v |-> <<>>]
          ELSE [r |-> Advance(r, n), v |-> BufSlice(data, r.off, r.off + n)] :
          r \in {r0}, n \in {n0} })

readUInt8(data, r0) ==
    The({ IF r.err THEN [r |-> r, v |-> 0]
          ELSE IF r.off + 1 > Len(data) THEN [r |-> Throw(r), v |-> 0]
          ELSE [r |-> Advance(r, 1), v |-> data[r.off + 1]] :
          r \in {r0} })

readUInt16(data, r0) ==
    The({ IF r.err THEN [r |-> r, v |-> 0]
          ELSE IF r.off + 2 > Len(data) THEN [r |-> Throw(r), v |-> 0]
          ELSE [r |-> Advance(r, 2), v |-> data[r.off + 1] * 256 + data[r.off + 2]] :
          r \in {r0} })

\* readUInt32 / readInt32: the value is kept as its four big-endian digits.
readUInt32(data, r0) ==
    The({ IF r.err THEN [r |-> r, v |-> <<>>]
          ELSE IF r.off + 4 > Len(data) THEN [r |-> Throw(r), v |-> <<>>]
          ELSE [r |-> Advance(r, 4), v |-> SubSeq(data, r.off + 1, r.off + 4)] :
          r \in {r0} })

readInt32(data, r0) == readUInt32(data, r0)

\* readUInt64: high * 2^32 + low, kept as its eight big-endian digits.
readUInt64(data, r0) ==
    The({ IF r.err THEN [r |-> r, v |-> <<>>]
          ELSE IF r.off + 8 > Len(data) THEN [r |-> Throw(r), v |-> <<>>]
          ELSE [r |-> Advance(r, 8), v |-> SubSeq(data, r.off + 1, r.off + 8)] :
          r \in {r0} })

\* new Date(ms).toISOString() throws RangeError when ms > 8.64e15
\* (0x001EB208C2DC0000): the record, and with it the frame, is rejected.
MaxDateMs == <<0, 30, 178, 8, 194, 220, 0, 0>>

ValidTime(ts) == ~BytesGreater(ts, MaxDateMs)

\* raw.toString('ascii').replace(/\0/g, ''): NUL bytes are dropped.
StripNul(raw) == SelectSeq(raw, LAMBDA b : b # 0)

StringIoIds == {256, 281, 385}

\* The value stored for an IO element: a number (1 and 2 bytes), a decimal
\* string (4 and 8 bytes, kept as digits), ASCII text or a hex string (NX).
IoValue(id, size, raw, variable) ==
    IF variable
    THEN IF id \in StringIoIds THEN [kind |-> "ascii", v |-> StripNul(raw)]
         ELSE [kind |-> "hex", v |-> raw]
    ELSE IF size = 1 THEN [kind |-> "num", v |-> <<raw[1]>>]
    ELSE IF size = 2 THEN [kind |-> "num", v |-> <<raw[1] * 256 + raw[2]>>]
    ELSE [kind |-> "big", v |-> raw]

\* An id or a count: one byte in Codec 8, two bytes in Codec 8 Extended.
readField(data, r, ext) == IF ext THEN readUInt16(data, r) ELSE readUInt8(data, r)

\* { id = read...(); raw = readBytes(size); elements.push({id, size, value}) }
\* raw.readUInt8(0) and its like throw on a raw shorter than size.
readFixedItem(data, r, ext, size) ==
    The({ The({ IF raw.r.err \/ Len(raw.v) < size
                THEN [r |-> Throw(raw.r), v |-> <<>>]
                ELSE [r |-> raw.r,
                      v |-> [id |-> id.v, size |-> size, value |-> IoValue(id.v, size, raw.v, FALSE)]] :
                raw \in {readBytes(data, id.r, size)} }) :
          id \in {readField(data, r, ext)} })

\* for (let i = 0; i < n; i++) { ... }
RECURSIVE readFixedItems(_, _, _, _, _, _)
readFixedItems(data, r0, ext, size, n0, acc0) ==
    The({ IF r.err \/ n = 0 THEN [r |-> r, v |-> acc]
          ELSE The({ IF item.r.err THEN [r |-> item.r, v |-> acc]
                     ELSE readFixedItems(data, item.r, ext, size, n - 1, Append(acc, item.v)) :
                     item \in {readFixedItem(data, r, ext, size)} }) :
          r \in {r0}, n \in {n0}, acc \in {acc0} })

\* One count-prefixed group of fixed width: const n = read...(); for (...)
readFixedGroup(data, r, ext, size, acc) ==
    The({ readFixedItems(data, n.r, ext, size, n.v, acc) : n \in {readField(data, r, ext)} })

\* { id = readUInt16(); length = readUInt16(); raw = readBytes(length); push }
readVariableItem(data, r) ==
    The({ The({ The({ [r |-> raw.r,
                       v |-> IF raw.r.err THEN <<>>
                             ELSE [id |-> id.v, size |-> ln.v, value |-> IoValue(id.v, ln.v, raw.v, TRUE)]] :
                      raw \in {readBytes(data, ln.r, ln.v)} }) :
                ln \in {readUInt16(data, id.r)} }) :
          id \in {readUInt16(data, r)} })

\* NX loop: for (let i = 0; i < nx; i++) { ... }
RECURSIVE readVariableItems(_, _, _, _)
readVariableItems(data, r0, n0, acc0) ==
    The({ IF r.err \/ n = 0 THEN [r |-> r, v |-> acc]
          ELSE The({ IF item.r.err THEN [r |-> item.r, v |-> acc]
                     ELSE readVariableItems(data, item.r, n - 1, Append(acc, item.v)) :
                     item \in {readVariableItem(data, r)} }) :
          r \in {r0}, n \in {n0}, acc \in {acc0} })

\* eventIoId, totalCount, then the groups of 1, 2, 4 and 8 byte values.
decodeIOFixed(data, r, ext) ==
    The({ The({ The({ The({ The({ The({
        [r |-> g8.r, v |-> [eventIoId |-> ev.v, totalCount |-> tc.v, elements |-> g8.v]] :
        g8 \in {readFixedGroup(data, g4.r, ext, 8, g4.v)} }) :
        g4 \in {readFixedGroup(data, g2.r, ext, 4, g2.v)} }) :
        g2 \in {readFixedGroup(data, g1.r, ext, 2, g1.v)} }) :
        g1 \in {readFixedGroup(data, tc.r, ext, 1, <<>>)} }) :
        tc \in {readField(data, ev.r, ext)} }) :
        ev \in {readField(data, r, ext)} })

decodeIOElementStandard(data, r) == decodeIOFixed(data, r, FALSE)

decodeIOElementExtended(data, r) ==
    The({ The({ The({
        [r |-> gx.r,
         v |-> [eventIoId |-> fx.v.eventIoId, totalCount |-> fx.v.totalCount, elements |-> gx.v]] :
        gx \in {readVariableItems(data, nx.r, nx.v, fx.v.elements)} }) :
        nx \in {readUInt16(data, fx.r)} }) :
        fx \in {decodeIOFixed(data, r, TRUE)} })

\* timestamp, priority, the GPS element (lon, lat, altitude, angle, satellites,
\* speed: the 15 bytes after the priority), the IO element; then toISOString().
readGps(data, r) ==
    The({ The({ The({ The({ The({ The({
        [r |-> spd.r,
         v |-> [longitude |-> lon.v, latitude |-> lat.v, altitude |-> alt.v,
                angle |-> ang.v, satellites |-> sat.v, speed |-> spd.v]] :
        spd \in {readUInt16(data, sat.r)} }) :
        sat \in {readUInt8(data, ang.r)} }) :
        ang \in {readUInt16(data, alt.r)} }) :
        alt \in {readUInt16(data, lat.r)} }) :
        lat \in {readInt32(data, lon.r)} }) :
        lon \in {readInt32(data, r)} })

decodeAVLRecord(data, r, ext) ==
    The({ The({ The({ The({
        [r |-> IF io.r.err \/ ValidTime(ts.v) THEN io.r ELSE Throw(io.r),
         v |-> [timestamp |-> ts.v, priority |-> pr.v, gps |-> gps.v, io |-> io.v]] :
        io \in {IF ext THEN decodeIOElementExtended(data, gps.r)
                       ELSE decodeIOElementStandard(data, gps.r)} }) :
        gps \in {readGps(data, pr.r)} }) :
        pr \in {readUInt8(data, ts.r)} }) :
        ts \in {readUInt64(data, r)} })

\* for (let i = 0; i < result.numberOfData1; i++) avlRecords.push(decodeAVLRecord())
RECURSIVE decodeRecords(_, _, _, _, _)
decodeRecords(data, r0, ext, n0, acc0) ==
    The({ IF r.err \/ n = 0 THEN [r |-> r, v |-> acc]
          ELSE The({ IF rec.r.err THEN [r |-> rec.r, v |-> acc]
                     ELSE decodeRecords(data, rec.r, ext, n - 1, Append(acc, rec.v)) :
                     rec \in {decodeAVLRecord(data, r, ext)} }) :
          r \in {r0}, n \in {n0}, acc \in {acc0} })

Codec8 == 8

Codec8E == 142

\* The four header reads of decode()'s object literal.
readHeader(data) ==
    The({ The({ The({ The({
        [r |-> nd1.r,
         v |-> [preamble |-> pre.v, dataFieldLength |-> dfl.v, codecId |-> cid.v,
                numberOfData1 |-> nd1.v]] :
        nd1 \in {readUInt8(data, cid.r)} }) :
        cid \in {readUInt8(data, dfl.r)} }) :
        dfl \in {readUInt32(data, pre.r)} }) :
        pre \in {readUInt32(data, NewReader)} })

\* if (codecId === 0x08) ... else if (codecId === 0x8e) ... else throw
checkCodec(r, codecId) == IF r.err \/ codecId \in {Codec8, Codec8E} THEN r ELSE Throw(r)

\* Codec8Decoder.decode: header, codec check, numberOfData1 records, trailer.
decode(data) ==
    The({ The({ The({ The({
        [r |-> crc.r,
         v |-> [preamble |-> h.v.preamble, dataFieldLength |-> h.v.dataFieldLength,
                codecId |-> h.v.codecId, numberOfData1 |-> h.v.numberOfData1,
                avlRecords |-> rs.v, numberOfData2 |-> nd2.v, crc |-> crc.v]] :
        crc \in {readUInt32(data, nd2.r)} }) :
        nd2 \in {readUInt8(data, rs.r)} }) :
        rs \in {decodeRecords(data, checkCodec(h.r, h.v.codecId), h.v.codecId = Codec8E,
                              h.v.numberOfData1, <<>>)} }) :
        h \in {readHeader(data)} })

\* decodeCodec8: try { return decoder.decode() } catch { return {error} }.
\* off and maxEnd are history fields of the decoder that produced the result.
decodeCodec8(buffer) ==
    The({ IF d.r.err
          THEN [error |-> TRUE, off |-> d.r.off, maxEnd |-> d.r.maxEnd, packet |-> <<>>]
          ELSE [error |-> FALSE, off |-> d.r.off, maxEnd |-> d.r.maxEnd, packet |-> d.v] :
          d \in { The({ decode(data) : data \in {buffer} }) } })

\* parseIMEI (server.js): 2-byte length 15 followed by at least 15 bytes.
parseIMEI(buffer) ==
    IF Len(buffer) < 2 THEN Null
    ELSE IF buffer[1] * 256 + buffer[2] # 15 THEN Null
    ELSE IF Len(buffer) < 2 + 15 THEN Null
    ELSE SubSeq(buffer, 3, 17)

(***************************************************************************)
(* Frames offered to the decoder and to the server.  encode* lay a frame   *)
(* out as the frame layout of the protocol prescribes (the repository has  *)
(* no encoder; these only build inputs).  A record shape says how many     *)
(* items each fixed-width IO group holds and which NX items follow.        *)
(***************************************************************************)
MaxRecords == 2

MaxItems == 1

MaxNxLen == 2

U16(n) == <<n \div 256, n % 256>>

U32(n) == <<0, 0>> \o U16(n)

\* s repeated n times
Repeat(s, n) == [i \in 1..(n * Len(s)) |-> s[((i - 1) % Len(s)) + 1]]

\* the members of a sequence of sequences, joined
RECURSIVE ConcatFrom(_, _)
ConcatFrom(ss, i0) ==
    The({ IF i > Len(ss) THEN <<>> ELSE ss[i] \o ConcatFrom(ss, i + 1) : i \in {i0} })

Concat(ss0) == The({ ConcatFrom(ss, 1) : ss \in {ss0} })

encodeField(ext, n) == IF ext THEN U16(n) ELSE <<n % 256>>

\* k items of one fixed-width group; the ids are those of real FMC003 elements.
encodeGroup(ext, id, size, k) ==
    encodeField(ext, k) \o Repeat(encodeField(ext, id) \o <<1>> \o Zeros(size - 1), k)

\* shape.nx is a sequence of [id, declared, payload] NX items.
encodeNx(items) ==
    U16(Len(items)) \o
    Concat([i \in 1..Len(items) |->
              U16(items[i].id) \o U16(items[i].declared) \o items[i].payload])

encodeIO(ext, shape) ==
    encodeField(ext, 239) \o encodeField(ext, 4 * shape.k + Len(shape.nx)) \o
    encodeGroup(ext, 239, 1, shape.k) \o encodeGroup(ext, 24, 2, shape.k) \o
    encodeGroup(ext, 16, 4, shape.k) \o encodeGroup(ext, 11, 8, shape.k) \o
    (IF ext THEN encodeNx(shape.nx) ELSE <<>>)

\* 8B timestamp, 1B priority, 15B GPS element, IO element.
encodeRecord(ext, shape) ==
    shape.ts \o <<1>> \o Zeros(4) \o Zeros(4) \o U16(100) \o U16(90) \o <<9>> \o U16(50) \o
    encodeIO(ext, shape)

encodeFrame(codec, shapes, nd2) ==
    LET body == <<codec, Len(shapes) % 256>> \o
                Concat([i \in 1..Len(shapes) |-> encodeRecord(codec = Codec8E, shapes[i])]) \o
                <<nd2>>
    IN  Zeros(4) \o U32(Len(body)) \o body \o Zeros(4)

\* 2024-01-01T00:00:00Z = 1704067200000 ms = 0x0000018CC251F400
Ts2024 == <<0, 0, 1, 140, 194, 81, 244, 0>>

\* a device clock far beyond the range of Date (> 8.64e15 ms)
TsHuge == <<1, 0, 0, 0, 0, 0, 0, 0>>

NxItem(id, len) == [id |-> id, declared |-> len, payload |-> Repeat(<<65>>, len)]

Shapes ==
    { [ts |-> Ts2024, k |-> k, nx |-> nx] :
        k \in 0..MaxItems,
        nx \in {<<>>} \cup { <<NxItem(id, len)>> : id \in {256, 385, 500}, len \in MaxNxLen - 1..MaxNxLen } }

\* Frames laid out exactly as the protocol prescribes, counts agreeing.
ValidFrames ==
    { encodeFrame(c, Repeat(<<s>>, n), n) : c \in {Codec8, Codec8E}, s \in Shapes, n \in 0..MaxRecords }

\* Well laid out frames whose trailing count differs from the leading one.
MismatchFrames ==
    { encodeFrame(c, Repeat(<<s>>, p[1]), p[2]) :
        c \in {Codec8, Codec8E}, s \in {sh \in Shapes : sh.k = 0},
        p \in {q \in (0..MaxRecords) \X (0..MaxRecords + 1) : q[1] # q[2]} }

\* Frames the decoder must refuse: unknown codec, timestamp out of range,
\* an NX item that declares more bytes than the frame holds.
BadFrames ==
    { encodeFrame(12, <<>>, 0),
      encodeFrame(Codec8, <<[ts |-> TsHuge, k |-> 0, nx |-> <<>>]>>, 1),
      encodeFrame(Codec8E, <<[ts |-> Ts2024, k |-> 0,
                              nx |-> <<[id |-> 256, declared |-> 200, payload |-> <<65>>]>>]>>, 1) }

Prefixes(f) == { SubSeq(f, 1, n) : n \in 0..Len(f) }

IsProperPrefix(b, f) == Len(b) < Len(f) /\ b = SubSeq(f, 1, Len(b))

CodecInputs == UNION { Prefixes(f) : f \in ValidFrames } \cup MismatchFrames \cup BadFrames

(***************************************************************************)
(* Part 2 - the TCP server (server/server.js) and the store (models.js)    *)
(***************************************************************************)
\* "864275079658715" and two more 15-digit IMEIs, as ASCII bytes.
ImeiA == <<56, 54, 52, 50, 55, 53, 48, 55, 57, 54, 53, 56, 55, 49, 53>>

ImeiB == <<56, 54, 52, 50, 55, 53, 48, 55, 57, 54, 53, 56, 55, 49, 54>>

ImeiC == <<56, 54, 52, 50, 55, 53, 48, 55, 57, 54, 53, 56, 55, 49, 55>>

Imeis == {ImeiA, ImeiB, ImeiC}

\* The device the operator's requests are about.
AdminImeis == {ImeiA}

\* A device filter {imei: null} matches the key Null.
DeviceKeys == Imeis \cup {Null}

\* A device document: present says whether findOne({imei}) finds one; approved is
\* "true", "false" or Unset (the document has no approved field); lastSeen is the
\* frame <<connection, event>> whose upsert touched it last.
Unset == "unset"

Absent == [present |-> FALSE, approved |-> Unset, lastSeen |-> <<>>]

DeviceDoc(approved) == [present |-> TRUE, approved |-> approved, lastSeen |-> <<>>]

\* null / undefined where an IO value is expected
NoValue == [kind |-> "null", v |-> <<>>]

loginFrame(imei) == U16(15) \o imei

VinShape == [ts |-> Ts2024, k |-> 1, nx |-> <<NxItem(256, 2)>>]

PlainShape == [ts |-> Ts2024, k |-> 0, nx |-> <<>>]

Avl1 == encodeFrame(Codec8E, <<VinShape>>, 1)

Avl0 == encodeFrame(Codec8, <<>>, 0)

\* one second after Ts2024
TsLater == <<0, 0, 1, 140, 194, 81, 247, 232>>

\* A frame of two records: one with the timestamp of the record of Avl1, one a
\* second later.
Avl2 == encodeFrame(Codec8, <<PlainShape, [ts |-> TsLater, k |-> 0, nx |-> <<>>]>>, 2)

\* Avl1 with the preamble 0x00000001.
AvlPre == <<0, 0, 0, 1>> \o SubSeq(Avl1, 5, Len(Avl1))

SplitAt == 20

\* What a TCP data event may carry, by name.
Bytes ==
    [ loginA     |-> loginFrame(ImeiA),
      loginB     |-> loginFrame(ImeiB),
      loginC     |-> loginFrame(ImeiC),
      login14    |-> U16(14) \o SubSeq(ImeiA, 1, 14),
      avl1       |-> Avl1,
      avl0       |-> Avl0,
      avl2       |-> Avl2,
      avlPre     |-> AvlPre,
      avlMis     |-> encodeFrame(Codec8, <<PlainShape>>, 2),
      part1      |-> SubSeq(Avl1, 1, SplitAt),
      part2      |-> SubSeq(Avl1, SplitAt + 1, Len(Avl1)),
      avl1avl0   |-> Avl1 \o Avl0,
      loginAavl1 |-> loginFrame(ImeiA) \o Avl1 ]

\* The data events of the general scenario: all but the two-record frame and
\* the frame with a preamble other than zero.
Chunks == DOMAIN Bytes \ {"avl2", "avlPre"}

\* parseIMEI(buffer) and decodeCodec8(buffer) of each chunk, tabulated.
ImeiOf == [ch \in DOMAIN Bytes |-> parseIMEI(Bytes[ch])]

DecodedOf == [ch \in DOMAIN Bytes |-> decodeCodec8(Bytes[ch])]

NoChunk == "none"

\* Every connection a behaviour may open; Conns are those of the one-device
\* scenario.
Sockets == {"c1", "c2"}

Conns == {"c1"}

MaxEvents == 3

MaxAdminOps == 1

\* The ticks of the poll ticker that a behaviour follows to their log line.
MaxPolls == 2

VARIABLES
    buf,          \* codec harness: the Buffer handed to decodeCodec8
    result,       \* codec harness: what decodeCodec8 returned
    cpc,          \* codec harness: "input" before the call, "decoded" after
    db,           \* getDb() is non-null: connect() succeeded at startup
    devices,      \* the devices collection: key -> Absent or a document
    rawFrames,    \* the raw_<type> collection
    records,      \* the records_<type> collection
    uniqueRecords, \* the records collection has the unique index on (timestamp, imei)
    writes,       \* store writes the server has issued, with their status
    lookups,      \* getDevice calls whose await has not resumed yet
    clients,      \* the clients Map (its keys)
    sock,         \* per connection: "none", "open", "destroyed" (by the server),
                  \*   "closed" (by the peer or an I/O error)
    deviceIMEI,   \* per connection: the closure variable deviceIMEI
    deviceVIN,    \* per connection: the closure variable deviceVIN
    deviceType,   \* per connection: the closure variable deviceType
    authTimeout,  \* per connection: "none", "armed", "cleared", "fired"
    interval,     \* per connection: the poll ticker is running
    nrx,          \* history, per connection: number of data events so far
    lastChunk,    \* history, per connection: the chunk of the latest data event
    wire,         \* history, per connection: what the server wrote, in order
    polls,        \* history, per connection: number of [POLL] lines logged
    adminOps      \* number of operator requests served

VARIABLES
    tin,              \* trips harness: the records the trips query returned, ascending
    tidx,             \* trips: the position of the segmentation loop in tin
    currentTrip,      \* trips: the local currentTrip
    tripRecords,      \* trips: the local tripRecords (positions in tin)
    lastEngineOnTime, \* trips: the local lastEngineOnTime
    trips,            \* trips: the local trips array
    closedTrips,      \* trips, history: every trip the loop closed, emitted or not
    tout,             \* trips: the trips of the response
    tcount,           \* trips: the count of the response
    tlimit,           \* trips: req.query.limit of the request answered
    tpc,              \* trips: "idle", "loop", "sort" or "done"
    brecs,            \* behaviour harness: the argument of calculateDriverBehavior
    bres,             \* behaviour harness: its result
    bpc,              \* behaviour harness: "idle", "input" or "done"
    ilog,             \* import: the lines of the log file the script reads
    ipackets,         \* import: the packets parsed from the log files, in order
    imp,              \* import: the run, its position and its counters
    reqs              \* api: the HTTP requests and how far their handlers are

tripVars == <<tin, tidx, currentTrip, tripRecords, lastEngineOnTime, trips, closedTrips, tout, tcount, tlimit,
             tpc>>

behaviorVars == <<brecs, bres, bpc>>

\* The variables of the import script and of the HTTP API.
toolVars == <<ilog, ipackets, imp, reqs>>

analysisVars == <<tripVars, behaviorVars, toolVars>>

\* The variables of the harnesses of the pure functions (decoder, analysis).
codecVars == <<buf, result, cpc, analysisVars>>

storeVars == <<db, uniqueRecords, devices, rawFrames, records, writes>>

connVars == <<clients, sock, deviceIMEI, deviceVIN, deviceType, authTimeout, interval>>

histVars == <<nrx, lastChunk, wire, polls>>

serverVars == <<storeVars, lookups, connVars, histVars, adminOps>>

vars == <<codecVars, serverVars>>

(***************************************************************************)
(* Pure helpers of server.js                                               *)
(***************************************************************************)
\* CODEC_DEVICE_MAP[codecId] || 'UNKNOWN'
getDeviceType(codecId) == IF codecId \in {Codec8, Codec8E} THEN "FMC003" ELSE "UNKNOWN"

\* JavaScript falsiness of an IO value: null, '' or 0.
Falsy(val) ==
    \/ val.kind = "null"
    \/ val.kind \in {"ascii", "hex"} /\ val.v = <<>>
    \/ val.kind = "num" /\ val.v = <<0>>

\* ioElements.elements.find(e => e.id === 256): the first such element's value.
extractVIN(io) ==
    LET idx == { i \in 1..Len(io.elements) : io.elements[i].id = 256 }
    IN  IF idx = {} THEN NoValue
        ELSE io.elements[CHOOSE i \in idx : \A j \in idx : i <= j].value

\* Buffer.alloc(4).writeUInt32BE(n, 0)
UInt32BE(n) == <<(n \div 16777216) % 256, (n \div 65536) % 256, (n \div 256) % 256, n % 256>>

\* Mutant of AvlAck: the ack counts the trailing numberOfData2.
AvlAckTrailing(packet) == UInt32BE(packet.numberOfData2)

\* The AVL ack: 4 bytes, big-endian numberOfData1.
AvlAck(packet) == UInt32BE(packet.numberOfData1)

LoginNack == <<0>>

LoginAck == <<1>>

\* socket.write on a socket that is no longer writable puts nothing on the wire.
Written(c, entry) == IF sock[c] = "open" THEN [wire EXCEPT ![c] = Append(@, entry)] ELSE wire

\* Mutant of Destroyed: the socket is left open.
NotDestroyed(c) == sock

\* socket.destroy()
Destroyed(c) == IF sock[c] = "open" THEN [sock EXCEPT ![c] = "destroyed"] ELSE sock

\* if (!device || device.approved === false)
LoginRejected(device) == ~device.present \/ device.approved = "false"

IsApproved(key) == key # Null /\ devices[key].present /\ devices[key].approved = "true"

Events == nrx["c1"] + nrx["c2"]

(***************************************************************************)
(* Initial state: the process has started, nobody is connected.  The       *)
(* operator has registered ImeiA (approved) and ImeiB (approval revoked).  *)
(***************************************************************************)
SessionsIdle ==
    /\ devices = [k \in DeviceKeys |->
                    IF k = ImeiA THEN DeviceDoc("true")
                    ELSE IF k = ImeiB THEN DeviceDoc("false")
                    ELSE Absent]
    /\ rawFrames = {}
    /\ records = {}
    /\ writes = {}
    /\ lookups = {}
    /\ clients = {}
    /\ sock = [c \in Sockets |-> "none"]
    /\ deviceIMEI = [c \in Sockets |-> Null]
    /\ deviceVIN = [c \in Sockets |-> NoValue]
    /\ deviceType = [c \in Sockets |-> "null"]
    /\ authTimeout = [c \in Sockets |-> "none"]
    /\ interval = [c \in Sockets |-> FALSE]
    /\ nrx = [c \in Sockets |-> 0]
    /\ lastChunk = [c \in Sockets |-> NoChunk]
    /\ wire = [c \in Sockets |-> <<>>]
    /\ polls = [c \in Sockets |-> 0]
    /\ adminOps = 0

\* connect() creates no unique index on the records collection.
ServerIdle ==
    /\ SessionsIdle
    /\ uniqueRecords = FALSE

NoResult == [error |-> FALSE, off |-> 0, maxEnd |-> 0, packet |-> <<>>]

\* req.query.limit: not given, or given with parseInt's integer n
NoLimit == [given |-> FALSE, n |-> 0]

Limit(n) == [given |-> TRUE, n |-> n]

NoTrip == [open |-> FALSE, startTime |-> 0, startOdometer |-> 0]

NoBehavior == [null |-> TRUE, driverScore |-> 0, efficiencyScore |-> 0, hardBraking |-> 0,
               hardAcceleration |-> 0, harshCornering |-> 0, idleMinutes |-> 0,
               confidenceLevel |-> "none",
               counted |-> [brake |-> <<>>, accel |-> <<>>, corner |-> <<>>],
               over |-> [brake |-> <<>>, accel |-> <<>>, corner |-> <<>>],
               tripDurationMinutes |-> 0, reasons |-> {},
               xRaw |-> <<>>, yRaw |-> <<>>, xFiltered |-> <<>>, yFiltered |-> <<>>]

\* Requests of the HTTP API that may be under way at once.
ReqIds == {"r1", "r2"}

NoRequest == [st |-> "none", route |-> "none", key |-> "none", imei |-> Null,
              existing |-> FALSE, status |-> 0, storeOps |-> 0]

NoImport == [pc |-> "idle", run |-> 0, pidx |-> 0, imported |-> 0, skipped |-> 0,
             errors |-> 0, after1 |-> {}]

ToolsIdle ==
    /\ ilog = <<>>
    /\ ipackets = <<>>
    /\ imp = NoImport
    /\ reqs = [r \in ReqIds |-> NoRequest]

AnalysisIdle ==
    /\ tin = <<>>
    /\ tidx = 0
    /\ currentTrip = NoTrip
    /\ tripRecords = <<>>
    /\ lastEngineOnTime = 0
    /\ trips = <<>>
    /\ closedTrips = <<>>
    /\ tout = <<>>
    /\ tcount = 0
    /\ tlimit = NoLimit
    /\ tpc = "idle"
    /\ brecs = <<>>
    /\ bres = NoBehavior
    /\ bpc = "idle"
    /\ ToolsIdle

CodecIdle ==
    /\ buf = <<>>
    /\ result = NoResult
    /\ cpc = "idle"
    /\ AnalysisIdle

Init ==
    /\ CodecIdle
    /\ db \in BOOLEAN
    /\ ServerIdle

(***************************************************************************)
(* net.createServer(socket => ...): a device connects                      *)
(***************************************************************************)
Connect(c) ==
    /\ sock[c] = "none"
    /\ sock' = [sock EXCEPT ![c] = "open"]
    /\ authTimeout' = [authTimeout EXCEPT ![c] = "armed"]
    /\ interval' = [interval EXCEPT ![c] = TRUE]
    /\ clients' = clients \cup {c}
    /\ UNCHANGED <<codecVars, storeVars, lookups, deviceIMEI, deviceVIN, deviceType,
                   histVars, adminOps>>

(***************************************************************************)
(* socket.on('data', async buffer => ...)                                  *)
(***************************************************************************)
\* if (!device || device.approved === false) { write 0x00; destroy; return }
\* deviceIMEI = imei; clearTimeout(authTimeout); write 0x01
LoginDecision(c, seq, imei, device) ==
    IF LoginRejected(device)
    THEN /\ wire' = Written(c, [seq |-> seq, bytes |-> LoginNack])
         /\ sock' = Destroyed(c)
         /\ UNCHANGED <<deviceIMEI, authTimeout>>
    ELSE /\ deviceIMEI' = [deviceIMEI EXCEPT ![c] = imei]
         /\ authTimeout' = [authTimeout EXCEPT ![c] = IF @ = "armed" THEN "cleared" ELSE @]
         /\ wire' = Written(c, [seq |-> seq, bytes |-> LoginAck])
         /\ UNCHANGED sock

\* The login branch, up to the await.  Without a database getDevice resolves
\* to null at once and the continuation runs before any other event.
DataLogin(c, seq, imei) ==
    IF db
    THEN /\ lookups' = lookups \cup {[c |-> c, seq |-> seq, imei |-> imei]}
         /\ UNCHANGED <<wire, sock, deviceIMEI, authTimeout>>
    ELSE /\ LoginDecision(c, seq, imei, Absent)
         /\ UNCHANGED lookups

\* The store writes one decoded frame gives rise to: upsertDevice, saveRawData
\* and, if the frame has records, saveRecords (its documents built at the call).
FrameWrites(c, seq, packet, vin, type) ==
    LET base == [c |-> c, seq |-> seq, imei |-> deviceIMEI[c], vin |-> vin, type |-> type,
                 auth |-> IsApproved(deviceIMEI[c]), st |-> "pending"]
        stamps == [i \in 1..Len(packet.avlRecords) |-> packet.avlRecords[i].timestamp]
    IN  { [op |-> "upsertDevice", stamps |-> <<>>] @@ base,
          [op |-> "saveRawData", stamps |-> <<>>] @@ base }
        \cup (IF Len(packet.avlRecords) > 0
              THEN { [op |-> "saveRecords", stamps |-> stamps] @@ base }
              ELSE {})

\* Mutant of DataAvl: a frame that fails to decode is answered with a zero ack.
DataAvlReplyOnError(c, seq, decoded) ==
    LET packet  == decoded.packet
        type    == getDeviceType(packet.codecId)
        vin     == IF Len(packet.avlRecords) > 0 /\ Falsy(deviceVIN[c])
                   THEN extractVIN(packet.avlRecords[1].io)
                   ELSE deviceVIN[c]
    IN  IF decoded.error
        THEN /\ wire' = Written(c, [seq |-> seq, bytes |-> UInt32BE(0)])
             /\ UNCHANGED <<writes, deviceVIN, deviceType>>
        ELSE /\ deviceType' = [deviceType EXCEPT ![c] = type]
             /\ deviceVIN' = [deviceVIN EXCEPT ![c] = vin]
             /\ writes' = IF db THEN writes \cup FrameWrites(c, seq, packet, vin, type) ELSE writes
             /\ wire' = Written(c, [seq |-> seq, bytes |-> AvlAck(packet)])

\* The AVL branch: decode, persist without awaiting, acknowledge.
DataAvl(c, seq, decoded) ==
    LET packet  == decoded.packet
        type    == getDeviceType(packet.codecId)
        vin     == IF Len(packet.avlRecords) > 0 /\ Falsy(deviceVIN[c])
                   THEN extractVIN(packet.avlRecords[1].io)
                   ELSE deviceVIN[c]
    IN  IF decoded.error
        THEN UNCHANGED <<writes, deviceVIN, deviceType, wire>>
        ELSE /\ deviceType' = [deviceType EXCEPT ![c] = type]
             /\ deviceVIN' = [deviceVIN EXCEPT ![c] = vin]
             /\ writes' = IF db THEN writes \cup FrameWrites(c, seq, packet, vin, type) ELSE writes
             /\ wire' = Written(c, [seq |-> seq, bytes |-> AvlAck(packet)])

Data(c, ch) ==
    /\ sock[c] = "open"
    /\ Events < MaxEvents
    /\ nrx' = [nrx EXCEPT ![c] = @ + 1]
    /\ lastChunk' = [lastChunk EXCEPT ![c] = ch]
    /\ IF ImeiOf[ch] # Null
       THEN /\ DataLogin(c, nrx[c] + 1, ImeiOf[ch])
            /\ UNCHANGED <<writes, deviceVIN, deviceType>>
       ELSE /\ DataAvl(c, nrx[c] + 1, DecodedOf[ch])
            /\ UNCHANGED <<lookups, sock, deviceIMEI, authTimeout>>
    /\ UNCHANGED <<codecVars, db, uniqueRecords, devices, rawFrames, records, clients, interval, polls,
                   adminOps>>

\* The code after `await getDevice(imei)`, with the device findOne returns.
LoginResume(l) ==
    /\ l \in lookups
    /\ lookups' = lookups \ {l}
    /\ LoginDecision(l.c, l.seq, l.imei, devices[l.imei])
    /\ UNCHANGED <<codecVars, storeVars, clients, deviceVIN, deviceType, interval,
                   nrx, lastChunk, polls, adminOps>>

(***************************************************************************)
(* Timers and socket events                                                *)
(***************************************************************************)
\* setTimeout(() => { if (!deviceIMEI) socket.destroy() }, 15000)
AuthTimeoutFires(c) ==
    /\ authTimeout[c] = "armed"
    /\ authTimeout' = [authTimeout EXCEPT ![c] = "fired"]
    /\ sock' = IF deviceIMEI[c] = Null THEN Destroyed(c) ELSE sock
    /\ UNCHANGED <<codecVars, storeVars, lookups, clients, deviceIMEI, deviceVIN, deviceType,
                   interval, histVars, adminOps>>

\* Mutant of PollTick: the ticker sends a one-byte keep-alive to the device.
PollTickPings(c) ==
    /\ interval[c]
    /\ polls[c] < MaxPolls
    /\ sock[c] = "open" /\ deviceIMEI[c] # Null
    /\ polls' = [polls EXCEPT ![c] = @ + 1]
    /\ wire' = Written(c, [seq |-> nrx[c], bytes |-> <<0>>])
    /\ UNCHANGED <<codecVars, storeVars, lookups, connVars, nrx, lastChunk, adminOps>>

\* setInterval(() => { if (socket.writable && deviceIMEI) log('[POLL] ...') },
\*             DATA_INTERVAL): a tick logs a line or does nothing.
PollTick(c) ==
    /\ interval[c]
    /\ polls[c] < MaxPolls
    /\ polls' = IF sock[c] = "open" /\ deviceIMEI[c] # Null
                THEN [polls EXCEPT ![c] = @ + 1] ELSE polls
    /\ UNCHANGED <<codecVars, storeVars, lookups, connVars, nrx, lastChunk, wire, adminOps>>

\* Mutant of SocketCloses: the whole clients map is emptied.
SocketClosesClearsMap(c) ==
    /\ sock[c] = "open"
    /\ sock' = [sock EXCEPT ![c] = "closed"]
    /\ authTimeout' = [authTimeout EXCEPT ![c] = IF @ = "armed" THEN "cleared" ELSE @]
    /\ interval' = [interval EXCEPT ![c] = FALSE]
    /\ clients' = {}
    /\ UNCHANGED <<codecVars, storeVars, lookups, deviceIMEI, deviceVIN, deviceType,
                   histVars, adminOps>>

\* socket.on('end') and socket.on('error'): the same clean-up.
SocketCloses(c) ==
    /\ sock[c] = "open"
    /\ sock' = [sock EXCEPT ![c] = "closed"]
    /\ authTimeout' = [authTimeout EXCEPT ![c] = IF @ = "armed" THEN "cleared" ELSE @]
    /\ interval' = [interval EXCEPT ![c] = FALSE]
    /\ clients' = clients \ {c}
    /\ UNCHANGED <<codecVars, storeVars, lookups, deviceIMEI, deviceVIN, deviceType,
                   histVars, adminOps>>

End(c) == SocketCloses(c)

Error(c) == SocketCloses(c)

(***************************************************************************)
(* The store: a pending write settles                                      *)
(***************************************************************************)
\* updateOne({imei}, {$set: {modemType, lastSeen, vin?}, $setOnInsert: {imei, createdAt}},
\*           {upsert: true})
UpsertedDevices(w) ==
    [devices EXCEPT ![w.imei] =
        IF @.present THEN [@ EXCEPT !.lastSeen = <<w.c, w.seq>>]
        ELSE [present |-> TRUE, approved |-> Unset, lastSeen |-> <<w.c, w.seq>>]]

\* records.map(record => buildRecordDoc(imei, vin, modemType, record))
RecordDocs(w) ==
    { [imei |-> w.imei, vin |-> IF Falsy(w.vin) THEN NoValue ELSE w.vin,
       timestamp |-> w.stamps[i], frame |-> <<w.c, w.seq>>, idx |-> i] :
      i \in 1..Len(w.stamps) }

\* collection.insertMany(docs) with the driver's default { ordered: true }: the
\* documents are inserted in order, and the first one the unique index rejects
\* ends the operation with an error; i documents have been tried.
RECURSIVE insertMany(_, _, _)
insertMany(docs, w, i) ==
    IF i = 0 THEN [docs |-> docs, error |-> FALSE]
    ELSE LET before == insertMany(docs, w, i - 1)
             doc    == CHOOSE d \in RecordDocs(w) : d.idx = i
         IN  IF before.error THEN before
             ELSE IF uniqueRecords /\ \E d \in before.docs :
                                        d.timestamp = doc.timestamp /\ d.imei = doc.imei
             THEN [before EXCEPT !.error = TRUE]
             ELSE [before EXCEPT !.docs = @ \cup {doc}]

\* A pending write settles.  saveRecords catches the error of insertMany and
\* resolves to null.
WriteSettles(w) ==
    /\ w \in writes
    /\ w.st = "pending"
    /\ LET inserted == insertMany(records, w, Len(w.stamps))
       IN  /\ writes' = (writes \ {w}) \cup
                           {[w EXCEPT !.st = IF w.op = "saveRecords" /\ inserted.error
                                             THEN "failed" ELSE "done"]}
           /\ records' = IF w.op = "saveRecords" THEN inserted.docs ELSE records
    /\ devices' = IF w.op = "upsertDevice" THEN UpsertedDevices(w) ELSE devices
    /\ rawFrames' = IF w.op = "saveRawData"
                    THEN rawFrames \cup {[imei |-> w.imei, frame |-> <<w.c, w.seq>>]}
                    ELSE rawFrames
    /\ UNCHANGED <<codecVars, db, uniqueRecords, lookups, connVars, histVars, adminOps>>

\* Mutant of WriteFails: a failed store write tears the connection down.
WriteFailsClosing(w) ==
    /\ w \in writes
    /\ w.st = "pending"
    /\ writes' = (writes \ {w}) \cup {[w EXCEPT !.st = "failed"]}
    /\ sock' = Destroyed(w.c)
    /\ UNCHANGED <<codecVars, db, uniqueRecords, devices, rawFrames, records, lookups, clients, deviceIMEI,
                   deviceVIN, deviceType, authTimeout, interval, histVars, adminOps>>

\* The store operation rejects: catch (err) { console.error(...); return null }.
\* Nothing is stored; the .then of the caller sees null and logs nothing.
WriteFails(w) ==
    /\ w \in writes
    /\ w.st = "pending"
    /\ writes' = (writes \ {w}) \cup {[w EXCEPT !.st = "failed"]}
    /\ UNCHANGED <<codecVars, db, uniqueRecords, devices, rawFrames, records, lookups, connVars, histVars,
                   adminOps>>

(***************************************************************************)
(* The operator (api.js): PATCH /devices/:imei/approve, DELETE             *)
(***************************************************************************)
PatchApprove(imei, approved) ==
    /\ db
    /\ adminOps < MaxAdminOps
    /\ devices[imei].present
    /\ devices' = [devices EXCEPT ![imei].approved = approved]
    /\ adminOps' = adminOps + 1
    /\ UNCHANGED <<codecVars, db, uniqueRecords, rawFrames, records, writes, lookups, connVars, histVars>>

DeleteDevice(imei) ==
    /\ db
    /\ adminOps < MaxAdminOps
    /\ devices[imei].present
    /\ devices' = [devices EXCEPT ![imei] = Absent]
    /\ adminOps' = adminOps + 1
    /\ UNCHANGED <<codecVars, db, uniqueRecords, rawFrames, records, writes, lookups, connVars, histVars>>

Next ==
    \/ \E c \in Conns : Connect(c)
    \/ \E c \in Conns, ch \in Chunks : Data(c, ch)
    \/ \E l \in lookups : LoginResume(l)
    \/ \E c \in Conns : AuthTimeoutFires(c)
    \/ \E c \in Conns : End(c)
    \/ \E c \in Conns : Error(c)
    \/ \E w \in writes : WriteSettles(w)
    \/ \E imei \in AdminImeis, approved \in {"true", "false"} : PatchApprove(imei, approved)
    \/ \E imei \in AdminImeis : DeleteDevice(imei)

Spec == Init /\ [][Next]_vars

(***************************************************************************)
(* One device and a store whose writes may fail: the store is connected,   *)
(* the operator is idle.                                                   *)
(***************************************************************************)
FaultChunks == {"loginA", "avl1", "avl0", "part1"}

InitStoreFaults ==
    /\ CodecIdle
    /\ db = TRUE
    /\ ServerIdle

NextStoreFaults ==
    \/ \E c \in Conns : Connect(c)
    \/ \E c \in Conns, ch \in FaultChunks : Data(c, ch)
    \/ \E l \in lookups : LoginResume(l)
    \/ \E c \in Conns : AuthTimeoutFires(c)
    \/ \E c \in Conns : End(c)
    \/ \E c \in Conns : Error(c)
    \/ \E w \in writes : WriteSettles(w)
    \/ \E w \in writes : WriteFails(w)

SpecStoreFaults == InitStoreFaults /\ [][NextStoreFaults]_vars

(***************************************************************************)
(* Two devices connected at the same time.                                 *)
(***************************************************************************)
PairChunks == {"loginA", "loginB", "avl1"}

NextPair ==
    \/ \E c \in Sockets : Connect(c)
    \/ \E c \in Sockets, ch \in PairChunks : Data(c, ch)
    \/ \E l \in lookups : LoginResume(l)
    \/ \E c \in Sockets : AuthTimeoutFires(c)
    \/ \E c \in Sockets : End(c)
    \/ \E c \in Sockets : Error(c)
    \/ \E w \in writes : WriteSettles(w)

SpecPair == InitStoreFaults /\ [][NextPair]_vars

(***************************************************************************)
(* One device that sends frames of one and of two records, and a frame     *)
(* whose preamble is not zero, to a store whose records collection may     *)
(* have the unique index on (timestamp, imei), which the import script and *)
(* the clean-up script create.                                             *)
(***************************************************************************)
BatchChunks == {"loginA", "avl1", "avl2", "avlPre"}

InitBatch ==
    /\ CodecIdle
    /\ db = TRUE
    /\ SessionsIdle
    /\ uniqueRecords \in BOOLEAN

NextBatch ==
    \/ \E c \in Conns : Connect(c)
    \/ \E c \in Conns, ch \in BatchChunks : Data(c, ch)
    \/ \E l \in lookups : LoginResume(l)
    \/ \E c \in Conns : End(c)
    \/ \E c \in Conns : Error(c)
    \/ \E w \in writes : WriteSettles(w)

SpecBatch == InitBatch /\ [][NextBatch]_vars

(***************************************************************************)
(* One connection on which the login frames of two devices arrive; the     *)
(* operator may approve the second device, ImeiB.                          *)
(***************************************************************************)
RebindChunks == {"loginA", "loginB", "avl1"}

NextRebind ==
    \/ \E c \in Conns : Connect(c)
    \/ \E c \in Conns, ch \in RebindChunks : Data(c, ch)
    \/ \E l \in lookups : LoginResume(l)
    \/ \E c \in Conns : End(c)
    \/ \E c \in Conns : Error(c)
    \/ \E w \in writes : WriteSettles(w)
    \/ \E approved \in {"true", "false"} : PatchApprove(ImeiB, approved)

SpecRebind == InitStoreFaults /\ [][NextRebind]_vars

(***************************************************************************)
(* One device, its timers and the poll ticker.                             *)
(***************************************************************************)
PollChunks == {"loginA", "loginB", "loginC", "avl1", "avl0", "avlMis"}

NextPoll ==
    \/ \E c \in Conns : Connect(c)
    \/ \E c \in Conns, ch \in PollChunks : Data(c, ch)
    \/ \E l \in lookups : LoginResume(l)
    \/ \E c \in Conns : AuthTimeoutFires(c)
    \/ \E c \in Conns : PollTick(c)
    \/ \E c \in Conns : End(c)
    \/ \E c \in Conns : Error(c)
    \/ \E w \in writes : WriteSettles(w)

SpecPoll == Init /\ [][NextPoll]_vars

(***************************************************************************)
(* The decoder on its own: one call of decodeCodec8 on a chosen buffer.    *)
(***************************************************************************)
CodecInit ==
    /\ buf \in CodecInputs
    /\ result = NoResult
    /\ cpc = "input"
    /\ AnalysisIdle
    /\ db = TRUE
    /\ ServerIdle

DecodeCall ==
    /\ cpc = "input"
    /\ result' = decodeCodec8(buf)
    /\ cpc' = "decoded"
    /\ UNCHANGED <<buf, analysisVars, serverVars>>

CodecNext == DecodeCall

SpecCodec == CodecInit /\ [][CodecNext]_vars

(***************************************************************************)
(* Part 3 - GET /devices/:imei/trips (api.js): the segmentation pass       *)
(*                                                                         *)
(* A stored record, as far as the analysis reads it: ts is its timestamp   *)
(* in ms after the first record of the query; a field the document lacks   *)
(* (totalOdometer, obdEngineRpm, obdVehicleSpeed, gpsSpeed for gps.speed,  *)
(* movement) is 0, which the code treats like undefined (x || 0, a && b);  *)
(* hasAccel says whether the accelerometer fields are there.  tripRecords  *)
(* holds positions in tin.                                                 *)
(***************************************************************************)
\* Math.round(n / d) for d > 0: floor(n / d + 1/2)
RoundDiv(n, d) == (2 * n + d) \div (2 * d)

\* Mutant of isEngineOn: only the ignition line is looked at.
isIgnitionOn(r) == r.ignition = 1

\* const isEngineOn = (r) => r.ignition === 1 || (r.obdEngineRpm && r.obdEngineRpm > 0)
isEngineOn(r) == r.ignition = 1 \/ r.obdEngineRpm > 0

\* Mutant of speedOf: the GPS speed is preferred.
speedOfGpsFirst(r) == IF r.gpsSpeed # 0 THEN r.gpsSpeed ELSE r.obdVehicleSpeed

\* r.obdVehicleSpeed || r.gps?.speed || 0
speedOf(r) == IF r.obdVehicleSpeed # 0 THEN r.obdVehicleSpeed ELSE r.gpsSpeed

\* 3600 times the distance estimated from speed and time, up to record i of
\* the trip: sum of speed[i-1] (km/h) * (ts[i] - ts[i-1]) (ms).
RECURSIVE SpeedTimeSum(_, _, _)
SpeedTimeSum(recs, pos, i) ==
    IF i < 2 THEN 0
    ELSE speedOf(recs[pos[i - 1]]) * (recs[pos[i]].ts - recs[pos[i - 1]].ts)
         + SpeedTimeSum(recs, pos, i - 1)

\* Mutant of TripEnd: the trip ends at the record that closes it.
TripEndAtOffRecord(recs, pos, at) == recs[at]

\* const lastOnRecord = tripRecords[tripRecords.length - 1]
TripEnd(recs, pos, at) == recs[pos[Len(pos)]]

\* The close branch: the trip object as it stands when the emission test is
\* made.  hasDistance says whether distanceMeters and distanceKm are set;
\* distanceKm10 is 10 * distanceKm and avgSpeedTotal10 is 10 * avgSpeedTotal.
closeTrip(recs, ct, pos, at) ==
    LET lastOn   == TripEnd(recs, pos, at)
        odoBoth  == ct.startOdometer # 0 /\ lastOn.totalOdometer # 0
        odoDist  == lastOn.totalOdometer - ct.startOdometer
        estimate == SpeedTimeSum(recs, pos, Len(pos))
        useEst   == (~odoBoth \/ odoDist = 0) /\ estimate > 0
        meters   == IF useEst THEN RoundDiv(estimate, 3600)
                    ELSE IF odoBoth THEN odoDist ELSE 0
        km10     == IF useEst THEN RoundDiv(estimate, 360000)
                    ELSE IF odoBoth THEN RoundDiv(odoDist, 100) ELSE 0
        minutes  == RoundDiv(lastOn.ts - ct.startTime, 60000)
        hasAvg   == (odoBoth \/ useEst) /\ meters # 0 /\ minutes > 0
    IN  [ startTime         |-> ct.startTime,
          startOdometer     |-> ct.startOdometer,
          endTime           |-> lastOn.ts,
          endOdometer       |-> lastOn.totalOdometer,
          hasDistance       |-> odoBoth \/ useEst,
          distanceMeters    |-> meters,
          distanceKm10      |-> km10,
          distanceEstimated |-> useEst,
          durationMinutes   |-> minutes,
          hasAvgSpeedTotal  |-> hasAvg,
          avgSpeedTotal10   |-> IF hasAvg THEN RoundDiv(60 * km10, minutes) ELSE 0 ]

\* Mutant of Emitted: only the duration decides.
EmittedByDurationOnly(trip) == trip.durationMinutes >= 2

\* if (currentTrip.durationMinutes >= 2 || currentTrip.distanceMeters > 100)
Emitted(trip) ==
    trip.durationMinutes >= 2 \/ (trip.hasDistance /\ trip.distanceMeters > 100)

\* Mutant of OffLongEnough: any engine-off record closes the trip.
OffAtAll(timeSinceLastOn) == timeSinceLastOn >= 0

\* Mutant of OffLongEnough: a gap of exactly 60 s closes the trip.
OffAtLeastAMinute(timeSinceLastOn) == timeSinceLastOn >= 60000

\* if (timeSinceLastOn > 60000)
OffLongEnough(timeSinceLastOn) == timeSinceLastOn > 60000

\* One iteration of for (const record of records).
TripStep ==
    /\ tpc = "loop"
    /\ tidx <= Len(tin)
    /\ tidx' = tidx + 1
    /\ LET record == tin[tidx]
           closed == closeTrip(tin, currentTrip, tripRecords, tidx)
       IN  IF isEngineOn(record) /\ ~currentTrip.open
           THEN /\ currentTrip' = [open |-> TRUE, startTime |-> record.ts,
                                   startOdometer |-> record.totalOdometer]
                /\ tripRecords' = <<tidx>>
                /\ lastEngineOnTime' = record.ts
                /\ UNCHANGED <<trips, closedTrips>>
           ELSE IF isEngineOn(record)
           THEN /\ tripRecords' = Append(tripRecords, tidx)
                /\ lastEngineOnTime' = record.ts
                /\ UNCHANGED <<currentTrip, trips, closedTrips>>
           ELSE IF currentTrip.open /\ OffLongEnough(record.ts - lastEngineOnTime)
           THEN /\ trips' = IF Emitted(closed) THEN Append(trips, closed) ELSE trips
                /\ closedTrips' = Append(closedTrips,
                                         [trip |-> closed, recs |-> tripRecords,
                                          at |-> tidx, emitted |-> Emitted(closed)])
                /\ currentTrip' = NoTrip
                /\ tripRecords' = <<>>
                /\ UNCHANGED lastEngineOnTime
           ELSE UNCHANGED <<currentTrip, tripRecords, lastEngineOnTime, trips, closedTrips>>
    /\ UNCHANGED <<tin, tout, tcount, tlimit, tpc, behaviorVars, toolVars, buf, result, cpc, serverVars>>

TripLoopEnds ==
    /\ tpc = "loop"
    /\ tidx > Len(tin)
    /\ tpc' = "sort"
    /\ UNCHANGED <<tin, tidx, currentTrip, tripRecords, lastEngineOnTime, trips, closedTrips,
                   tout, tcount, tlimit, behaviorVars, toolVars, buf, result, cpc, serverVars>>

\* trips.sort((a, b) => new Date(b.startTime) - new Date(a.startTime)): stable,
\* latest start first.
RECURSIVE SortByStartDesc(_)
SortByStartDesc(ts) ==
    IF ts = <<>> THEN <<>>
    ELSE LET i == CHOOSE k \in 1..Len(ts) :
                      /\ \A j \in 1..Len(ts) : ts[j].startTime <= ts[k].startTime
                      /\ \A j \in 1..(k - 1) : ts[j].startTime < ts[k].startTime
         IN  <<ts[i]>> \o SortByStartDesc(SubSeq(ts, 1, i - 1) \o SubSeq(ts, i + 1, Len(ts)))

\* Math.min(parseInt(req.query.limit) || 20, 100): NaN (no limit given) and 0
\* are falsy.
TripLimit(q) == Min(IF ~q.given \/ q.n = 0 THEN 20 ELSE q.n, 100)

\* array.slice(0, end): a negative end counts from the end of the array.
Slice0(arr, end) ==
    SubSeq(arr, 1, IF end < 0 THEN Max(Len(arr) + end, 0) ELSE Min(end, Len(arr)))

\* res.json({ device, count: Math.min(trips.length, limit), trips: trips.slice(0, limit) })
TripsRespond(q) ==
    /\ tpc = "sort"
    /\ tlimit' = q
    /\ tcount' = Min(Len(trips), TripLimit(q))
    /\ tout' = Slice0(SortByStartDesc(trips), TripLimit(q))
    /\ tpc' = "done"
    /\ UNCHANGED <<tin, tidx, currentTrip, tripRecords, lastEngineOnTime, trips, closedTrips,
                   behaviorVars, toolVars, buf, result, cpc, serverVars>>

(***************************************************************************)
(* Record lists for the trips query.  A step says what kind of record      *)
(* comes next and how long after the previous one.                         *)
(***************************************************************************)
MaxTripRecs == 4

MaxEpisodes == 3

\* The kinds of record of the short lists; episodes also use "drive".
TripKinds == {"still", "rpm", "off"}

TripDeltas == {0, 60000, 60001}

RECURSIVE TimeAt(_, _)
TimeAt(steps, i) == IF i < 2 THEN 0 ELSE steps[i].delta + TimeAt(steps, i - 1)

\* The odometer readings of a list: none; rising by 600 m with every record of
\* a moving vehicle; stuck; falling (the counter was reset or replaced).
OdoModes == {"none", "up", "flat", "down"}

OdometerAt(steps, i, odo) ==
    LET moved == Cardinality({ j \in 1..i : steps[j].kind \in {"drive", "rpm"} })
    IN  IF odo = "up" THEN 1000 + 600 * moved
        ELSE IF odo = "flat" THEN 1000
        ELSE IF odo = "down" THEN 10000 - 600 * moved
        ELSE 0

\* "still": ignition on, standing; "drive": ignition on and engine turning,
\* 36 km/h by GPS only; "rpm": ignition line off, engine turning, 36 km/h by
\* OBD and 30 km/h by GPS; "off": everything off.
RecordOf(steps, i, odo) ==
    [ ts              |-> TimeAt(steps, i),
      ignition        |-> IF steps[i].kind \in {"still", "drive"} THEN 1 ELSE 0,
      obdEngineRpm    |-> IF steps[i].kind \in {"drive", "rpm"} THEN 800 ELSE 0,
      totalOdometer   |-> OdometerAt(steps, i, odo),
      obdVehicleSpeed |-> IF steps[i].kind = "rpm" THEN 36 ELSE 0,
      gpsSpeed        |-> IF steps[i].kind = "rpm" THEN 30
                          ELSE IF steps[i].kind = "drive" THEN 36 ELSE 0,
      movement        |-> IF steps[i].kind \in {"drive", "rpm"} THEN 1 ELSE 0,
      hasAccel        |-> FALSE,
      accelerometerX  |-> 0,
      accelerometerY  |-> 0 ]

RecordsOf(steps, odo) == [i \in 1..Len(steps) |-> RecordOf(steps, i, odo)]

St(kind, delta) == [kind |-> kind, delta |-> delta]

\* Every list of up to MaxTripRecs steps.
ShortStepLists ==
    UNION { [1..n -> [kind : TripKinds, delta : TripDeltas]] : n \in 0..MaxTripRecs }

\* Whole episodes: a drive that is emitted for its distance, a stop-over that is
\* discarded, a long stand that is emitted for its duration, a trip with a
\* short engine-off pause, a trip whose closing record is late.
Episodes ==
    { <<St("drive", 60001), St("rpm", 60000), St("off", 60001)>>,
      <<St("still", 60001), St("off", 60001)>>,
      <<St("still", 60001), St("still", 60000), St("still", 60000), St("off", 60001)>>,
      <<St("drive", 60001), St("off", 60000), St("drive", 30000), St("off", 60001)>>,
      <<St("drive", 60001), St("drive", 30000), St("off", 30000), St("off", 60000)>> }

EpisodeStepLists ==
    UNION { { Concat(es) : es \in [1..n -> Episodes] } : n \in 1..MaxEpisodes }

TripInputs ==
    { RecordsOf(steps, odo) :
        steps \in { x \in ShortStepLists \cup EpisodeStepLists : Len(x) = 0 \/ x[1].delta = 60001 },
        odo \in OdoModes }

\* ?limit= absent, 0, 1 and -1
LimitQueries == {NoLimit, Limit(0), Limit(1), Limit(0 - 1)}

TripsInit ==
    /\ tin \in TripInputs
    /\ tidx = 1
    /\ currentTrip = NoTrip
    /\ tripRecords = <<>>
    /\ lastEngineOnTime = 0
    /\ trips = <<>>
    /\ closedTrips = <<>>
    /\ tout = <<>>
    /\ tcount = 0
    /\ tlimit = NoLimit
    /\ tpc = "loop"
    /\ brecs = <<>>
    /\ bres = NoBehavior
    /\ bpc = "idle"
    /\ ToolsIdle
    /\ buf = <<>>
    /\ result = NoResult
    /\ cpc = "idle"
    /\ db = TRUE
    /\ ServerIdle

TripsNext ==
    \/ TripStep
    \/ TripLoopEnds
    \/ \E q \in LimitQueries : TripsRespond(q)

SpecTrips == TripsInit /\ [][TripsNext]_vars

(***************************************************************************)
(* Part 4 - calculateDriverBehavior (db.js)                                *)
(*                                                                         *)
(* A record as the function reads it: ts in ms, speed standing for         *)
(* obdVehicleSpeed || gps.speed || 0, satellites for gps.satellites,       *)
(* hasAccel for accelerometerX and accelerometerY both being there; the    *)
(* accelerometer values are the unsigned 16-bit numbers of the device.     *)
(* Times are exact integers of ms and penalties exact fractions, so        *)
(* Math.round is floor(x + 1/2) on the exact value.                        *)
(***************************************************************************)
HARD_BRAKE_THRESHOLD == 150

HARD_ACCEL_THRESHOLD == 200

HARSH_CORNER_THRESHOLD == 150

MIN_SPEED_FOR_EVENTS == 10

MIN_SPEED_FOR_CORNERING == 20

EVENT_COOLDOWN_MS == 2000

\* No event of the kind yet (lastBrakeTime = null)
NoTime == -1

toSigned16(val) == IF val > 32767 THEN val - 65536 ELSE val

Median3(a, b, c) == a + b + c - Max(a, Max(b, c)) - Min(a, Min(b, c))

\* Mutant of medianFilter: the series is used as it was measured.
unfiltered(values) == values

medianFilter(values) ==
    IF Len(values) < 3 THEN values
    ELSE [i \in 1..Len(values) |->
            IF i = 1 \/ i = Len(values) THEN values[i]
            ELSE Median3(values[i - 1], values[i], values[i + 1])]

\* tripRecords.filter(...): the positions of the records kept, in order.
accelRecords(recs) ==
    SelectSeq([i \in 1..Len(recs) |-> i], LAMBDA i : recs[i].hasAccel)

stationaryRecords(recs) ==
    SelectSeq([i \in 1..Len(recs) |-> i], LAMBDA i : recs[i].speed < 3 /\ recs[i].hasAccel)

gpsRecords(recs) ==
    SelectSeq([i \in 1..Len(recs) |-> i], LAMBDA i : recs[i].satellites > 0)

\* values.sort((a, b) => a - b)[k], k counted from 0
SortedAt(values, k) ==
    CHOOSE v \in { values[i] : i \in DOMAIN values } :
        /\ Cardinality({ i \in DOMAIN values : values[i] < v }) <= k
        /\ Cardinality({ i \in DOMAIN values : values[i] <= v }) > k

RECURSIVE SumSeq(_, _)
SumSeq(values, n) == IF n = 0 THEN 0 ELSE values[n] + SumSeq(values, n - 1)

\* Mutant of EnoughAccel: five records with accelerometer data are too few.
MoreThanFiveAccel(n) == n > 5

\* if (accelRecords.length < 5) return null
EnoughAccel(n) == n >= 5

\* STEP 1: the baseline of one axis, from its signed values in the
\* stationary records and in the records with accelerometer data.
baseline(stationary, accel) ==
    IF Len(stationary) >= 3
    THEN SortedAt(stationary, Len(stationary) \div 2)
    ELSE LET n == Min(5, Len(accel))
         IN  RoundDiv(SumSeq(accel, n), n)

\* let deltaSeconds = 5; ... Math.min(Math.max(1, timeDiff), 60), in ms
deltaMs(recs, i) ==
    IF i = 1 THEN 5000 ELSE Min(Max(1000, recs[i].ts - recs[i - 1].ts), 60000)

\* Mutant of CooledDown: an event exactly 2000 ms after the last one counts.
CooledDownInclusive(lastTime, currentTime) ==
    lastTime = NoTime \/ currentTime - lastTime >= EVENT_COOLDOWN_MS

\* if (!lastTime || (currentTime - lastTime) > EVENT_COOLDOWN_MS)
CooledDown(lastTime, currentTime) ==
    lastTime = NoTime \/ currentTime - lastTime > EVENT_COOLDOWN_MS

\* STEP 3: the counters after records 1..i of the loop.  counted and over are
\* history: the timestamps of the events counted, and of the samples that met
\* the conditions of an event before the cooldown test.
RECURSIVE EventLoop(_, _, _, _, _)
EventLoop(recs, accelPos, xFiltered, yFiltered, i) ==
    IF i = 0
    THEN [hardBraking |-> 0, hardAcceleration |-> 0, harshCornering |-> 0, idleMs |-> 0,
          lastBrakeTime |-> NoTime, lastAccelTime |-> NoTime, lastCornerTime |-> NoTime,
          counted |-> [brake |-> <<>>, accel |-> <<>>, corner |-> <<>>],
          over |-> [brake |-> <<>>, accel |-> <<>>, corner |-> <<>>]]
    ELSE LET e        == EventLoop(recs, accelPos, xFiltered, yFiltered, i - 1)
             r        == recs[i]
             matches  == { k \in DOMAIN accelPos : recs[accelPos[k]].ts = r.ts }
             accelIdx == IF matches = {} THEN 0
                         ELSE CHOOSE k \in matches : \A j \in matches : k <= j
             looked   == accelIdx > 0 /\ r.speed >= MIN_SPEED_FOR_EVENTS
             devX     == IF looked THEN xFiltered[accelIdx] ELSE 0
             devY     == IF looked THEN yFiltered[accelIdx] ELSE 0
             absY     == IF devY < 0 THEN 0 - devY ELSE devY
             brakeOver  == looked /\ devX < 0 - HARD_BRAKE_THRESHOLD
             accelOver  == looked /\ devX > HARD_ACCEL_THRESHOLD
             cornerOver == looked /\ absY > HARSH_CORNER_THRESHOLD
                                  /\ r.speed >= MIN_SPEED_FOR_CORNERING
             brake    == brakeOver /\ CooledDown(e.lastBrakeTime, r.ts)
             accel    == accelOver /\ CooledDown(e.lastAccelTime, r.ts)
             corner   == cornerOver /\ CooledDown(e.lastCornerTime, r.ts)
             add(q, b) == IF b THEN Append(q, r.ts) ELSE q
             idle     == r.ignition = 1 /\ r.speed < 3 /\ r.movement = 0
         IN  [hardBraking      |-> e.hardBraking + (IF brake THEN 1 ELSE 0),
              hardAcceleration |-> e.hardAcceleration + (IF accel THEN 1 ELSE 0),
              harshCornering   |-> e.harshCornering + (IF corner THEN 1 ELSE 0),
              idleMs           |-> e.idleMs + (IF idle THEN deltaMs(recs, i) ELSE 0),
              lastBrakeTime    |-> IF brake THEN r.ts ELSE e.lastBrakeTime,
              lastAccelTime    |-> IF accel THEN r.ts ELSE e.lastAccelTime,
              lastCornerTime   |-> IF corner THEN r.ts ELSE e.lastCornerTime,
              counted          |-> [brake  |-> add(e.counted.brake, brake),
                                    accel  |-> add(e.counted.accel, accel),
                                    corner |-> add(e.counted.corner, corner)],
              over             |-> [brake  |-> add(e.over.brake, brakeOver),
                                    accel  |-> add(e.over.accel, accelOver),
                                    corner |-> add(e.over.corner, cornerOver)]]

\* Math.max(0, Math.min(100, x))
ClampScore(x) == Max(0, Min(100, x))

\* Mutant of driverScoreOf: no floor of 3 points for severe events.
driverScoreNoFloor(hardBraking, hardAcceleration, harshCornering, tripDurationMinutes) ==
    LET factor10        == Min(60, Max(10, tripDurationMinutes))
        totalRawPenalty == Min(25, hardBraking * 4) + Min(20, hardAcceleration * 2)
                           + Min(15, harshCornering * 3)
    IN  ClampScore(RoundDiv(100 * factor10 - 10 * totalRawPenalty, factor10))

\* STEP 4, driver score: Math.round(100 - normalizedPenalty) clamped, where
\* durationFactor = Math.min(6, Math.max(1, tripDurationMinutes / 10)) is
\* factor10 / 10 and normalizedPenalty is penaltyNum / factor10.
driverScoreOf(hardBraking, hardAcceleration, harshCornering, tripDurationMinutes) ==
    LET factor10        == Min(60, Max(10, tripDurationMinutes))
        totalRawPenalty == Min(25, hardBraking * 4) + Min(20, hardAcceleration * 2)
                           + Min(15, harshCornering * 3)
        severeEvents    == hardBraking + harshCornering
        penaltyNum      == Max(10 * totalRawPenalty,
                               (IF severeEvents > 0 THEN 3 ELSE 0) * factor10)
    IN  ClampScore(RoundDiv(100 * factor10 - penaltyNum, factor10))

\* STEP 4, efficiency score
efficiencyScoreOf(idleMs) ==
    LET idleMinutes == RoundDiv(idleMs, 60000)
        idlePenalty == Min(30, (idleMinutes \div 5) * 2)
    IN  ClampScore(100 - idlePenalty)

\* confidenceReasons after the four checks, as a set (no reason is pushed
\* twice).
confidenceReasons(recs, accelCount, tripDurationMinutes) ==
    LET gps      == gpsRecords(recs)
        satSum   == SumSeq([k \in DOMAIN gps |-> recs[gps[k]].satellites], Len(gps))
        poorGnss == Len(gps) = 0 \/ satSum < 3 * Len(gps)
        lowAccel == 10 * accelCount < 3 * Len(recs)
        startOdo == recs[1].totalOdometer
        endOdo   == recs[Len(recs)].totalOdometer
        estim    == startOdo # 0 /\ endOdo # 0 /\ startOdo = endOdo
    IN  (IF poorGnss THEN {"poor_gnss"} ELSE {})
        \cup (IF lowAccel THEN {"low_accel_coverage"} ELSE {})
        \cup (IF tripDurationMinutes < 5 THEN {"short_trip"} ELSE {})
        \cup (IF estim THEN {"distance_estimated"} ELSE {})

\* Mutant of scoreAffectingReasons: short_trip lowers the confidence too.
everyReason(reasons) == reasons

\* confidenceReasons.filter(r => r !== 'short_trip')
scoreAffectingReasons(reasons) == reasons \ {"short_trip"}

confidenceLevelOf(reasons) ==
    LET n == Cardinality(scoreAffectingReasons(reasons))
    IN  IF n >= 2 THEN "low" ELSE IF n = 1 THEN "medium" ELSE "high"

\* Confidence damping: low confidence caps the score at 95.
finalDriverScore(driverScore, confidenceLevel) ==
    IF confidenceLevel = "low" /\ driverScore > 95 THEN 95 ELSE driverScore

calculateDriverBehavior(recs) ==
    LET accelPos == accelRecords(recs)
        statPos  == stationaryRecords(recs)
        xOf(pos) == [k \in DOMAIN pos |-> toSigned16(recs[pos[k]].accelerometerX)]
        yOf(pos) == [k \in DOMAIN pos |-> toSigned16(recs[pos[k]].accelerometerY)]
    IN  IF ~EnoughAccel(Len(accelPos)) THEN NoBehavior
        ELSE LET baselineX == baseline(xOf(statPos), xOf(accelPos))
                 baselineY == baseline(yOf(statPos), yOf(accelPos))
                 xRaw      == [k \in DOMAIN accelPos |-> xOf(accelPos)[k] - baselineX]
                 yRaw      == [k \in DOMAIN accelPos |-> yOf(accelPos)[k] - baselineY]
                 xFiltered == medianFilter(xRaw)
                 yFiltered == medianFilter(yRaw)
                 e         == EventLoop(recs, accelPos, xFiltered, yFiltered, Len(recs))
                 minutes   == RoundDiv(recs[Len(recs)].ts - recs[1].ts,
                                       60000)
                 score     == driverScoreOf(e.hardBraking, e.hardAcceleration,
                                            e.harshCornering, minutes)
                 reasons   == confidenceReasons(recs, Len(accelPos), minutes)
                 level     == confidenceLevelOf(reasons)
             IN  [null             |-> FALSE,
                  driverScore      |-> finalDriverScore(score, level),
                  efficiencyScore  |-> efficiencyScoreOf(e.idleMs),
                  hardBraking      |-> e.hardBraking,
                  hardAcceleration |-> e.hardAcceleration,
                  harshCornering   |-> e.harshCornering,
                  idleMinutes      |-> RoundDiv(e.idleMs, 60000),
                  confidenceLevel  |-> level,
                  counted          |-> e.counted,
                  over             |-> e.over,
                  tripDurationMinutes |-> minutes,
                  reasons          |-> reasons,
                  xRaw             |-> xRaw,
                  yRaw             |-> yRaw,
                  xFiltered        |-> xFiltered,
                  yFiltered        |-> yFiltered]

BehaviorCall ==
    /\ bpc = "input"
    /\ bres' = The({ calculateDriverBehavior(rs) : rs \in {brecs} })
    /\ bpc' = "done"
    /\ UNCHANGED <<brecs, tripVars, toolVars, buf, result, cpc, serverVars>>

(***************************************************************************)
(* Record lists for calculateDriverBehavior: two runs of like records.     *)
(***************************************************************************)
MaxRun == 3

LongRun == 8

\* The records without accelerometer data that may end a list.
BareTail == 12

\* standing with the ignition on; braking, accelerating and cornering at
\* 36 km/h; driving without accelerometer data.
BehaviorKinds == {"idle", "brake", "accel", "corner", "bare"}

BehaviorDeltas == {1000, 3000, 60000, 600000}

Runs ==
    { Repeat(<<St(kind, delta)>>, n) :
        kind \in BehaviorKinds, delta \in BehaviorDeltas, n \in (1..MaxRun) \cup {LongRun} }
    \cup {<<>>}

\* How a list may end: with its second run, with one more record standing
\* still, or with BareTail records without accelerometer data.
Tails == {<<>>, <<St("idle", 1000)>>, Repeat(<<St("bare", 1000)>>, BareTail)}

\* sats: satellites in view or none; odoMoves: a moving odometer or a stuck
\* one.
BehaviorRecordOf(steps, i, sats, odoMoves) ==
    [ ts             |-> 1000000 + TimeAt(steps, i),
      ignition       |-> 1,
      speed          |-> IF steps[i].kind = "idle" THEN 0 ELSE 36,
      movement       |-> IF steps[i].kind = "idle" THEN 0 ELSE 1,
      totalOdometer  |-> IF odoMoves THEN 1000 + 10 * i ELSE 1000,
      satellites     |-> IF sats THEN 7 ELSE 0,
      hasAccel       |-> steps[i].kind # "bare",
      accelerometerX |-> IF steps[i].kind = "brake" THEN 65536 - 200
                         ELSE IF steps[i].kind = "accel" THEN 300 ELSE 0,
      accelerometerY |-> IF steps[i].kind = "corner" THEN 65536 - 200 ELSE 0 ]

\* The record lists made of two runs and one of the given tails.
BehaviorInputs(tails) ==
    { [i \in 1..Len(steps) |-> BehaviorRecordOf(steps, i, sats, odoMoves)] :
        steps \in { a \o b \o c : a \in Runs \ {<<>>}, b \in Runs, c \in tails },
        sats \in BOOLEAN, odoMoves \in BOOLEAN }

BehaviorInit ==
    /\ brecs \in BehaviorInputs(Tails)
    /\ bres = NoBehavior
    /\ bpc = "input"
    /\ ToolsIdle
    /\ tin = <<>>
    /\ tidx = 0
    /\ currentTrip = NoTrip
    /\ tripRecords = <<>>
    /\ lastEngineOnTime = 0
    /\ trips = <<>>
    /\ closedTrips = <<>>
    /\ tout = <<>>
    /\ tcount = 0
    /\ tlimit = NoLimit
    /\ tpc = "idle"
    /\ buf = <<>>
    /\ result = NoResult
    /\ cpc = "idle"
    /\ db = TRUE
    /\ ServerIdle

BehaviorNext == BehaviorCall

SpecBehavior == BehaviorInit /\ [][BehaviorNext]_vars

(***************************************************************************)
(* Part 5 - importToMongo (the log import script)                          *)
(*                                                                         *)
(* A packet is what parseLogFile made of a RECV/HEX pair: the IMEI and VIN *)
(* current at that line and the frame, named here.  The script is run      *)
(* twice over the same packets; each step takes one packet through the     *)
(* loop of importToMongo, whose awaits nothing else interleaves with.      *)
(***************************************************************************)
MaxPackets == 3

ImportBytes ==
    [ one |-> Avl1,
      two |-> Avl2,
      bad |-> encodeFrame(Codec8, <<[ts |-> TsHuge, k |-> 0, nx |-> <<>>]>>, 1) ]

ImportFrames == DOMAIN ImportBytes

\* decodeCodec8(Buffer.from(packet.hex, 'hex')) of each frame, tabulated
ImportDecoded == [f \in ImportFrames |-> decodeCodec8(ImportBytes[f])]

\* line is history: the line of the log the packet was read from, 0 if the
\* log is not followed.
Packets == [imei : {ImeiA, ImeiB, Null}, frame : ImportFrames, line : {0}]

PacketLists == UNION { [1..n -> Packets] : n \in 0..MaxPackets }

\* Mutant of existing: the look-up never finds a record.
existingNever(docs, timestamp, imei) == FALSE

\* await recordsCollection.findOne({ timestamp: doc.timestamp, imei: doc.imei })
existing(docs, timestamp, imei) ==
    \E d \in docs : d.timestamp = timestamp /\ d.imei = imei

\* for (const record of decoded.avlRecords): the collection and the counters
\* after records 1..i of the packet.
RECURSIVE importRecords(_, _, _, _, _)
importRecords(docs, packet, avlRecords, tag, i) ==
    IF i = 0 THEN [docs |-> docs, imported |-> 0, skipped |-> 0]
    ELSE LET before == importRecords(docs, packet, avlRecords, tag, i - 1)
             ts     == avlRecords[i].timestamp
         IN  IF existing(before.docs, ts, packet.imei)
             THEN [before EXCEPT !.skipped = @ + 1]
             ELSE [docs     |-> before.docs \cup
                                { [imei |-> packet.imei, vin |-> NoValue, timestamp |-> ts,
                                   frame |-> tag, idx |-> i] },
                   imported |-> before.imported + 1,
                   skipped  |-> before.skipped]

\* One iteration of for (const packet of packets).
ImportPacket ==
    /\ imp.pc = "run"
    /\ imp.pidx <= Len(ipackets)
    /\ LET packet  == ipackets[imp.pidx]
           decoded == ImportDecoded[packet.frame]
           tag     == <<IF imp.run = 1 THEN "import1" ELSE "import2", imp.pidx>>
           after   == importRecords(records, packet, decoded.packet.avlRecords, tag,
                                    Len(decoded.packet.avlRecords))
       IN  IF packet.imei = Null
           THEN /\ imp' = [imp EXCEPT !.pidx = @ + 1, !.skipped = @ + 1]
                /\ UNCHANGED <<records, rawFrames, devices>>
           ELSE IF decoded.error
           THEN /\ imp' = [imp EXCEPT !.pidx = @ + 1, !.errors = @ + 1]
                /\ UNCHANGED <<records, rawFrames, devices>>
           ELSE /\ rawFrames' = rawFrames \cup {[imei |-> packet.imei, frame |-> tag]}
                /\ records' = after.docs
                /\ devices' = [devices EXCEPT ![packet.imei] =
                                  IF @.present THEN @
                                  ELSE [present |-> TRUE, approved |-> Unset, lastSeen |-> <<>>]]
                /\ imp' = [imp EXCEPT !.pidx = @ + 1,
                                      !.imported = @ + after.imported,
                                      !.skipped = @ + after.skipped]
    /\ UNCHANGED <<ipackets, ilog, reqs, tripVars, behaviorVars, buf, result, cpc, db, uniqueRecords, writes,
                   lookups, connVars, histVars, adminOps>>

\* main() returns; the script is started a second time over the same files.
ImportRunEnds ==
    /\ imp.pc = "run"
    /\ imp.pidx > Len(ipackets)
    /\ imp' = IF imp.run = 1
              THEN [pc |-> "run", run |-> 2, pidx |-> 1, imported |-> 0, skipped |-> 0,
                    errors |-> 0, after1 |-> records]
              ELSE [imp EXCEPT !.pc = "done"]
    /\ UNCHANGED <<ipackets, ilog, reqs, tripVars, behaviorVars, buf, result, cpc, serverVars>>

\* What the server may have stored before the import: nothing, the record of
\* frame "one", or that record twice.
StoredBefore ==
    LET doc(seq) == [imei |-> ImeiA, vin |-> NoValue,
                     timestamp |-> ImportDecoded["one"].packet.avlRecords[1].timestamp,
                     frame |-> <<"c1", seq>>, idx |-> 1]
    IN  { {}, {doc(1)}, {doc(1), doc(2)} }

\* The server is not running and nothing else is under way.
ImportRest ==
    /\ reqs = [r \in ReqIds |-> NoRequest]
    /\ tin = <<>>
    /\ tidx = 0
    /\ currentTrip = NoTrip
    /\ tripRecords = <<>>
    /\ lastEngineOnTime = 0
    /\ trips = <<>>
    /\ closedTrips = <<>>
    /\ tout = <<>>
    /\ tcount = 0
    /\ tlimit = NoLimit
    /\ tpc = "idle"
    /\ brecs = <<>>
    /\ bres = NoBehavior
    /\ bpc = "idle"
    /\ buf = <<>>
    /\ result = NoResult
    /\ cpc = "idle"
    /\ db = TRUE
    /\ devices = [k \in DeviceKeys |-> IF k = ImeiA THEN DeviceDoc("true") ELSE Absent]
    /\ rawFrames = {}
    /\ writes = {}
    /\ lookups = {}
    /\ clients = {}
    /\ sock = [c \in Sockets |-> "none"]
    /\ deviceIMEI = [c \in Sockets |-> Null]
    /\ deviceVIN = [c \in Sockets |-> NoValue]
    /\ deviceType = [c \in Sockets |-> "null"]
    /\ authTimeout = [c \in Sockets |-> "none"]
    /\ interval = [c \in Sockets |-> FALSE]
    /\ nrx = [c \in Sockets |-> 0]
    /\ lastChunk = [c \in Sockets |-> NoChunk]
    /\ wire = [c \in Sockets |-> <<>>]
    /\ polls = [c \in Sockets |-> 0]
    /\ adminOps = 0

ImportInit ==
    /\ ilog = <<>>
    /\ ipackets \in PacketLists
    /\ imp = [NoImport EXCEPT !.pc = "run", !.run = 1, !.pidx = 1]
    /\ records \in StoredBefore
    /\ uniqueRecords = (Cardinality(records) < 2)
    /\ ImportRest

ImportNext ==
    \/ ImportPacket
    \/ ImportRunEnds

SpecImport == ImportInit /\ [][ImportNext]_vars

(***************************************************************************)
(* parseLogFile (the log import script) on a log two connections wrote.    *)
(*                                                                         *)
(* A line is one line of the server's log: "recv" (<- RECV clientId),      *)
(* "hex" (HEX: ...), "login" ([LOGIN] IMEI: ...) or "db" ([DB] Device      *)
(* registered/updated: ...).  client is history: the connection whose      *)
(* handler wrote the line; only the recv line shows it in the file.        *)
(***************************************************************************)
MaxLogEntries == 4

LogLine(kind, client, imei, hex) == [kind |-> kind, client |-> client, imei |-> imei, hex |-> hex]

\* What the server logs in one go: for a login frame logReceived's two lines
\* and the [LOGIN] line; for an AVL frame logReceived's two lines; the [DB]
\* line when upsertDevice has resolved.
LoginEntry(client, imei, hex) ==
    <<LogLine("recv", client, Null, "none"), LogLine("hex", client, Null, hex),
      LogLine("login", client, imei, "none")>>

AvlEntry(client, hex) ==
    <<LogLine("recv", client, Null, "none"), LogLine("hex", client, Null, hex)>>

DbEntry(client, imei) == <<LogLine("db", client, imei, "none")>>

\* Connection c1 is device ImeiA's and sends frame "one"; c2 is ImeiB's and
\* sends frame "two".
LogEntries ==
    { LoginEntry("c1", ImeiA, "loginA"), LoginEntry("c2", ImeiB, "loginB"),
      AvlEntry("c1", "one"), AvlEntry("c2", "two"),
      DbEntry("c1", ImeiA), DbEntry("c2", ImeiB) }

\* A connection logs in first, and a [DB] line follows a frame of its
\* connection.
LogInOrder(es) ==
    \A i \in DOMAIN es :
        /\ es[i][1].kind = "recv" /\ Len(es[i]) = 2
              => \E j \in 1..(i - 1) : Len(es[j]) = 3 /\ es[j][1].client = es[i][1].client
        /\ es[i][1].kind = "db"
              => \E j \in 1..(i - 1) : Len(es[j]) = 2 /\ es[j][1].client = es[i][1].client

ReplayLogs ==
    { Concat(es) : es \in { q \in UNION { [1..n -> LogEntries] : n \in 1..MaxLogEntries } :
                              LogInOrder(q) } }

\* Buffer.from(hex, 'hex') of a HEX line
HexBytes(hex) == IF hex \in ImportFrames THEN ImportBytes[hex] ELSE Bytes[hex]

\* hexData.startsWith('000f')
StartsWith000f(bytes) == Len(bytes) >= 2 /\ bytes[1] = 0 /\ bytes[2] = 15

\* for (let i = 0; i < lines.length; i++): the packets after lines i.. of the
\* file, with currentImei and the packets so far.
RECURSIVE parseLines(_, _, _, _)
parseLines(lines, i, currentImei, packets) ==
    IF i > Len(lines) THEN packets
    ELSE LET line == lines[i]
         IN  IF line.kind = "login" \/ line.kind = "db"
             THEN parseLines(lines, i + 1, line.imei, packets)
             ELSE IF line.kind = "recv" /\ i + 1 <= Len(lines) /\ lines[i + 1].kind = "hex"
                     /\ ~StartsWith000f(HexBytes(lines[i + 1].hex))
             THEN parseLines(lines, i + 1, currentImei,
                             Append(packets, [imei |-> currentImei, frame |-> lines[i + 1].hex,
                                              line |-> i]))
             ELSE parseLines(lines, i + 1, currentImei, packets)

\* main(): parseLogFile(filePath, null, null) of the one log file.
ParseLog ==
    /\ imp.pc = "parse"
    /\ ipackets' = parseLines(ilog, 1, Null, <<>>)
    /\ imp' = [imp EXCEPT !.pc = "run", !.run = 1, !.pidx = 1]
    /\ UNCHANGED <<ilog, reqs, tripVars, behaviorVars, buf, result, cpc, serverVars>>

\* The script starts on an empty database, whose unique index it creates.
ReplayInit ==
    /\ ilog \in ReplayLogs
    /\ ipackets = <<>>
    /\ imp = [NoImport EXCEPT !.pc = "parse"]
    /\ records = {}
    /\ uniqueRecords = TRUE
    /\ ImportRest

ReplayNext ==
    \/ ParseLog
    \/ ImportPacket
    \/ ImportRunEnds

SpecReplay == ReplayInit /\ [][ReplayNext]_vars

(***************************************************************************)
(* Part 6 - the HTTP API (api.js): authentication, /health, /devices       *)
(*                                                                         *)
(* A request runs through the middleware and its handler up to the first   *)
(* await when it arrives; each awaited store call settles in a step of its *)
(* own, so the handlers of two requests interleave at their awaits.        *)
(* storeOps is history: the store calls the request has made.              *)
(***************************************************************************)
\* process.env.API_KEY || 'telem-secret-key-change-me'
API_KEY == "telem-secret-key-change-me"

\* The X-API-Key header of a request: "" when the header is missing.
ApiKeys == {"", "not-the-key", API_KEY}

Routes == {"GET /health", "GET /devices/:imei", "POST /devices", "DELETE /devices/:imei"}

\* The imei of a request (body or path): registered, not registered, one digit
\* short, missing.
RequestImeis == {ImeiA, ImeiC, SubSeq(ImeiA, 1, 14), Null}

\* Mutant of Unauthorized: any key is let through, only a missing one refused.
UnauthorizedIfMissing(apiKey) == apiKey = ""

\* if (!apiKey || apiKey !== API_KEY) return res.status(401)
Unauthorized(apiKey) == apiKey = "" \/ apiKey # API_KEY

\* !imei || !/^\d{15}$/.test(imei)
InvalidImei(imei) ==
    imei = Null \/ Len(imei) # 15 \/ \E i \in DOMAIN imei : imei[i] < 48 \/ imei[i] > 57

\* findOne({ imei }) on the devices collection finds a document.
Registered(imei) == imei \in DOMAIN devices /\ devices[imei].present

Responded(q, status) == [q EXCEPT !.st = "done", !.status = status]

Awaiting(q, call) == [q EXCEPT !.st = call, !.storeOps = @ + 1]

\* The request arrives: /health, apiKeyAuth, then the handler up to its first
\* await.  Without a database getDb() is null and db.collection throws, which
\* the handler's catch answers with 500.
ApiRequest(r, route, key, imei) ==
    /\ reqs[r].st = "none"
    /\ LET q == [reqs[r] EXCEPT !.route = route, !.key = key, !.imei = imei]
       IN  reqs' = [reqs EXCEPT ![r] =
              IF route = "GET /health" THEN Responded(q, 200)
              ELSE IF Unauthorized(key) THEN Responded(q, 401)
              ELSE IF route = "POST /devices" /\ InvalidImei(imei) THEN Responded(q, 400)
              ELSE IF ~db THEN Responded(q, 500)
              ELSE IF route = "POST /devices" THEN Awaiting(q, "findOne")
              ELSE IF route = "GET /devices/:imei" THEN Awaiting(q, "getOne")
              ELSE Awaiting(q, "deleteOne")]
    /\ UNCHANGED <<ipackets, ilog, imp, tripVars, behaviorVars, buf, result, cpc, serverVars>>

\* POST /devices: const existing = await findOne({ imei }) resumes.
PostFindOneSettles(r) ==
    /\ reqs[r].st = "findOne"
    /\ reqs' = [reqs EXCEPT ![r] =
                  IF devices[@.imei].present
                  THEN Responded([@ EXCEPT !.existing = TRUE], 409)
                  ELSE Awaiting(@, "insertOne")]
    /\ UNCHANGED <<ipackets, ilog, imp, tripVars, behaviorVars, buf, result, cpc, serverVars>>

\* POST /devices: await insertOne(device) resumes; the unique index on imei
\* (connect) makes it throw if a document with the imei is there by now.
PostInsertOneSettles(r) ==
    /\ reqs[r].st = "insertOne"
    /\ IF devices[reqs[r].imei].present
       THEN /\ reqs' = [reqs EXCEPT ![r] = Responded(@, 500)]
            /\ UNCHANGED devices
       ELSE /\ reqs' = [reqs EXCEPT ![r] = Responded(@, 201)]
            /\ devices' = [devices EXCEPT ![reqs[r].imei] = DeviceDoc("true")]
    /\ UNCHANGED <<ipackets, ilog, imp, tripVars, behaviorVars, buf, result, cpc, db, uniqueRecords, rawFrames,
                   records, writes, lookups, connVars, histVars, adminOps>>

\* GET /devices/:imei: await findOne({ imei }) resumes.
GetDeviceSettles(r) ==
    /\ reqs[r].st = "getOne"
    /\ reqs' = [reqs EXCEPT ![r] =
                  Responded(@, IF Registered(@.imei) THEN 200 ELSE 404)]
    /\ UNCHANGED <<ipackets, ilog, imp, tripVars, behaviorVars, buf, result, cpc, serverVars>>

\* DELETE /devices/:imei: await deleteOne({ imei }) resumes.
DeleteDeviceSettles(r) ==
    /\ reqs[r].st = "deleteOne"
    /\ reqs' = [reqs EXCEPT ![r] =
                  Responded(@, IF Registered(@.imei) THEN 200 ELSE 404)]
    /\ devices' = IF Registered(reqs[r].imei)
                  THEN [devices EXCEPT ![reqs[r].imei] = Absent] ELSE devices
    /\ UNCHANGED <<ipackets, ilog, imp, tripVars, behaviorVars, buf, result, cpc, db, uniqueRecords, rawFrames,
                   records, writes, lookups, connVars, histVars, adminOps>>

ApiInit ==
    /\ CodecIdle
    /\ db \in BOOLEAN
    /\ ServerIdle

ApiNext ==
    \/ \E r \in ReqIds, route \in Routes, key \in ApiKeys, imei \in RequestImeis :
          ApiRequest(r, route, key, imei)
    \/ \E r \in ReqIds : PostFindOneSettles(r)
    \/ \E r \in ReqIds : PostInsertOneSettles(r)
    \/ \E r \in ReqIds : GetDeviceSettles(r)
    \/ \E r \in ReqIds : DeleteDeviceSettles(r)

SpecApi == ApiInit /\ [][ApiNext]_vars

(***************************************************************************)
(* Properties                                                              *)
(***************************************************************************)
Last(s) == s[Len(s)]

\* The store writes connection c has issued so far, whatever their status.
IssuedBy(ws, c) == { <<w.op, w.seq>> : w \in { x \in ws : x.c = c } }

\* The step is a data event on connection c.
DataStep(c) == nrx'[c] = nrx[c] + 1

\* The big-endian value of a 4-byte reply.
BEValue(b) == ((b[1] * 256 + b[2]) * 256 + b[3]) * 256 + b[4]

\* C1: a store write completes only for a session that, when it issued the
\* write, had an accepted login for a device present with approved = true.
C1_PersistOnlyFromApprovedSession ==
    \A w \in writes : w.st = "done" => w.auth

\* C2: whenever a login is answered with 0x01, the device the store holds for
\* that IMEI is present with approved = true.
C2_AckOnlyIfApprovedTrue ==
    [][\A c \in Conns :
         (Len(wire'[c]) = Len(wire[c]) + 1 /\ Last(wire'[c]).bytes = LoginAck)
            => (devices[deviceIMEI'[c]].present /\ devices[deviceIMEI'[c]].approved = "true")]_vars

\* The step decides a login of connection c against a device that is absent or
\* has approved = false (without a database every device is absent).
RejectStep(c) ==
    \/ \E l \in lookups \ lookups' :
          /\ l.c = c
          /\ (~devices[l.imei].present \/ devices[l.imei].approved = "false")
    \/ ~db /\ DataStep(c) /\ ImeiOf[lastChunk'[c]] # Null

\* C3: rejecting a login on an open connection writes the single byte 0x00 and
\* closes the connection in the same step, issuing no store write; on a
\* connection the server has closed no further data event is handled, nothing is
\* written to the socket and no store write is issued.
C3_RejectedLoginClosesSilently ==
    [][\A c \in Conns :
         /\ (RejectStep(c) /\ sock[c] = "open")
               => /\ Len(wire'[c]) = Len(wire[c]) + 1
                  /\ SubSeq(wire'[c], 1, Len(wire[c])) = wire[c]
                  /\ Last(wire'[c]).bytes = <<0>>
                  /\ sock'[c] = "destroyed"
                  /\ IssuedBy(writes', c) = IssuedBy(writes, c)
         /\ sock[c] = "destroyed"
               => /\ sock'[c] = "destroyed"
                  /\ nrx'[c] = nrx[c]
                  /\ wire'[c] = wire[c]
                  /\ IssuedBy(writes', c) = IssuedBy(writes, c)]_vars

\* C3 witness: a login was refused with 0x00 and the connection closed.
C3_Witness ==
    \E c \in Conns :
        /\ sock[c] = "destroyed"
        /\ lastChunk[c] = "loginB"
        /\ wire[c] = <<[seq |-> 1, bytes |-> <<0>>]>>

\* C4: when the 15 s timer finds no accepted login on an open connection, it
\* closes the connection, to which nothing has been written and from which no
\* store write has been issued.
C4_TimeoutClosesSilently ==
    [][\A c \in Conns :
         (authTimeout[c] = "armed" /\ authTimeout'[c] = "fired"
          /\ sock[c] = "open" /\ deviceIMEI[c] = Null)
            => /\ sock'[c] = "destroyed"
               /\ wire[c] = <<>>
               /\ IssuedBy(writes, c) = {}]_vars

\* C5: a data event whose bytes are not a login and decode without error puts
\* exactly one reply on the wire, 4 bytes long, whose big-endian value is the
\* decoded numberOfData1.
C5_AvlAckIsNumberOfData1 ==
    [][\A c \in Conns :
         (DataStep(c) /\ ImeiOf[lastChunk'[c]] = Null /\ ~DecodedOf[lastChunk'[c]].error)
            => /\ Len(wire'[c]) = Len(wire[c]) + 1
               /\ SubSeq(wire'[c], 1, Len(wire[c])) = wire[c]
               /\ Last(wire'[c]).seq = nrx'[c]
               /\ Len(Last(wire'[c]).bytes) = 4
               /\ BEValue(Last(wire'[c]).bytes) = DecodedOf[lastChunk'[c]].packet.numberOfData1]_vars

\* C5 witness: a frame with no records was acknowledged with 00 00 00 00.
C5_Witness ==
    \E c \in Conns :
        /\ lastChunk[c] = "avl0"
        /\ Len(wire[c]) > 0
        /\ Last(wire[c]) = [seq |-> nrx[c], bytes |-> <<0, 0, 0, 0>>]

\* C6: on each connection the replies are written in the order in which the
\* frames they answer arrived.
C6_RepliesInArrivalOrder ==
    \A c \in Conns : \A i, j \in 1..Len(wire[c]) :
        i < j => wire[c][i].seq < wire[c][j].seq

\* C7: when a data event brings the rest of a frame whose first part the
\* previous data event brought, the whole frame is acknowledged, once.
C7_SplitFrameAckedOnce ==
    [][\A c \in Conns :
         (DataStep(c) /\ lastChunk[c] \in Chunks
          /\ Len(Bytes[lastChunk[c]]) < Len(Avl1)
          /\ Bytes[lastChunk[c]] \o Bytes[lastChunk'[c]] = Avl1)
            => /\ Len(wire'[c]) = Len(wire[c]) + 1
               /\ Last(wire'[c]).bytes = <<0, 0, 0, 1>>]_vars

\* C8: a data event that carries two complete AVL frames is answered with two
\* acks, one per frame, in order.
C8_CoalescedFramesEachAcked ==
    [][\A c \in Conns :
         (DataStep(c) /\ Bytes[lastChunk'[c]] = Avl1 \o Avl0)
            => /\ Len(wire'[c]) = Len(wire[c]) + 2
               /\ wire'[c][Len(wire[c]) + 1].bytes = <<0, 0, 0, 1>>
               /\ wire'[c][Len(wire[c]) + 2].bytes = <<0, 0, 0, 0>>]_vars

\* C9: decodeCodec8 never returns a packet whose trailing numberOfData2 differs
\* from its leading numberOfData1.
C9_CountMismatchIsError ==
    (cpc = "decoded" /\ ~result.error)
        => result.packet.numberOfData1 = result.packet.numberOfData2

\* C10: on a proper prefix of a valid frame decodeCodec8 returns an error, and
\* no read of the decoder ends beyond the end of the buffer.
C10_PrefixIsErrorWithinBounds ==
    cpc = "decoded"
        => /\ result.maxEnd <= Len(buf)
           /\ (\E f \in ValidFrames : IsProperPrefix(buf, f)) => result.error

\* C10 witness: a Codec 8E frame cut inside the payload of its NX item was
\* refused.
C10_Witness ==
    /\ cpc = "decoded"
    /\ buf = SubSeq(Avl1, 1, Len(Avl1) - 6)
    /\ result.error
    /\ result.maxEnd < Len(buf)

\* The step is a data event on c whose bytes are no login and fail to decode.
DecodeErrorStep(c) ==
    DataStep(c) /\ ImeiOf[lastChunk'[c]] = Null /\ DecodedOf[lastChunk'[c]].error

\* C11: a data event whose bytes fail to decode writes nothing to the socket,
\* issues no store write and changes nothing in the store, and leaves the
\* connection open with its session unchanged; a decodable frame that arrives
\* right after it is acknowledged.
C11_DecodeErrorDropsFrameOnly ==
    [][\A c \in Conns :
         /\ DecodeErrorStep(c)
               => /\ wire'[c] = wire[c]
                  /\ writes' = writes
                  /\ <<devices', rawFrames', records'>> = <<devices, rawFrames, records>>
                  /\ sock'[c] = "open"
                  /\ <<deviceIMEI'[c], deviceVIN'[c], deviceType'[c]>>
                        = <<deviceIMEI[c], deviceVIN[c], deviceType[c]>>
         /\ (DataStep(c) /\ lastChunk[c] \in Chunks
             /\ ImeiOf[lastChunk[c]] = Null /\ DecodedOf[lastChunk[c]].error
             /\ ImeiOf[lastChunk'[c]] = Null /\ ~DecodedOf[lastChunk'[c]].error)
               => /\ Len(wire'[c]) = Len(wire[c]) + 1
                  /\ Last(wire'[c]) = [seq |-> nrx'[c],
                                       bytes |-> UInt32BE(DecodedOf[lastChunk'[c]].packet.numberOfData1)]]_vars

\* C11 witness: in an accepted session a frame failed to decode, got no reply,
\* and the frame after it was acknowledged.
C11_Witness ==
    \E c \in Conns :
        /\ nrx[c] = 3
        /\ lookups = {}
        /\ deviceIMEI[c] = ImeiA
        /\ lastChunk[c] = "avl1"
        /\ wire[c] = <<[seq |-> 1, bytes |-> <<1>>], [seq |-> 3, bytes |-> <<0, 0, 0, 1>>]>>

\* What a connection's session consists of, besides its place in the clients map.
Session(c) ==
    <<sock[c], deviceIMEI[c], deviceVIN[c], deviceType[c], authTimeout[c], interval[c]>>

\* C12: the data event that decodes a frame writes its ack in the same step in
\* which it issues the frame's store writes, all of them still pending; and a
\* step in which a store write completes or fails writes nothing to any socket
\* and changes no session and no entry of the clients map.
C12_AckDoesNotAwaitStore ==
    [][\A c \in Conns :
         /\ (DataStep(c) /\ ImeiOf[lastChunk'[c]] = Null /\ ~DecodedOf[lastChunk'[c]].error)
               => /\ Len(wire'[c]) = Len(wire[c]) + 1
                  /\ Last(wire'[c]).seq = nrx'[c]
                  /\ Len(Last(wire'[c]).bytes) = 4
                  /\ \E w \in writes' : w.c = c /\ w.seq = nrx'[c] /\ w.op = "saveRawData"
                  /\ \A w \in writes' : (w.c = c /\ w.seq = nrx'[c]) => w.st = "pending"
         /\ (writes' # writes /\ ~DataStep(c))
               => /\ wire'[c] = wire[c]
                  /\ Session(c)' = Session(c)
                  /\ clients' = clients]_vars

\* C12 witness: a store write of the first frame failed, that frame and the one
\* after it were both acknowledged, and the connection is still open.
C12_Witness ==
    \E c \in Conns :
        /\ sock[c] = "open"
        /\ \E w \in writes : w.c = c /\ w.seq = 1 /\ w.st = "failed"
        /\ \E w \in writes : w.c = c /\ w.seq = 2 /\ w.st = "pending"
        /\ wire[c] = <<[seq |-> 1, bytes |-> <<0, 0, 0, 1>>], [seq |-> 2, bytes |-> <<0, 0, 0, 1>>]>>

\* C13: without a store (getDb() is null) a login frame on an open connection
\* is answered with 0x01 and the connection stays open.
C13_DegradedModeAcceptsLogin ==
    [][\A c \in Conns :
         (~db /\ DataStep(c) /\ ImeiOf[lastChunk'[c]] # Null)
            => /\ Len(wire'[c]) = Len(wire[c]) + 1
               /\ Last(wire'[c]).bytes = <<1>>
               /\ sock'[c] = "open"]_vars

\* C14: the records collection holds at most one record per (imei, timestamp),
\* for the records that carry an IMEI.
C14_OneRecordPerImeiAndTimestamp ==
    \A r1, r2 \in { r \in records : r.imei # Null } :
        (r1.imei = r2.imei /\ r1.timestamp = r2.timestamp) => r1 = r2

\* C15: when an open connection is closed by its peer or by an I/O error, its
\* entry leaves the clients map, its ticker is stopped and its auth timer is no
\* longer armed, while the entry, ticker, timer and socket of every other
\* connection stay as they were.
C15_CloseReleasesOwnEntryOnly ==
    [][\A c \in Sockets :
         (sock[c] = "open" /\ sock'[c] = "closed")
            => /\ c \notin clients'
               /\ ~interval'[c]
               /\ authTimeout'[c] # "armed"
               /\ \A d \in Sockets \ {c} :
                     /\ (d \in clients') = (d \in clients)
                     /\ interval'[d] = interval[d]
                     /\ authTimeout'[d] = authTimeout[d]
                     /\ sock'[d] = sock[d]]_vars

\* C15 witness: an established session was closed by its peer while another
\* connection stays registered with its ticker running.
C15_Witness ==
    /\ sock["c1"] = "closed"
    /\ deviceIMEI["c1"] = ImeiA
    /\ "c1" \notin clients
    /\ ~interval["c1"]
    /\ sock["c2"] = "open"
    /\ "c2" \in clients
    /\ interval["c2"]

Range(q) == { q[i] : i \in DOMAIN q }

\* The engine-on predicate of the claims: ignition == 1 or obdEngineRpm > 0.
EngineOnRecord(r) == r.ignition = 1 \/ r.obdEngineRpm > 0

\* C16: every engine-on record of the input whose timestamp lies within a
\* closed trip's [startTime, endTime] is in that trip's record set.
C16_TripCoversItsEngineOnRecords ==
    \A k \in Range(closedTrips) : \A i \in 1..Len(tin) :
        (EngineOnRecord(tin[i]) /\ k.trip.startTime <= tin[i].ts /\ tin[i].ts <= k.trip.endTime)
            => i \in Range(k.recs)

\* C16 witness: an emitted trip holds three records, one of them engine-on by
\* its RPM alone.
C16_Witness ==
    /\ tpc = "done"
    /\ \E k \in Range(closedTrips) :
          /\ k.emitted
          /\ Len(k.recs) >= 3
          /\ \E i \in Range(k.recs) : tin[i].ignition = 0 /\ tin[i].obdEngineRpm > 0

\* Trips a and b, b the later, are at least 60 s apart.
QuietGap(a, b) == b.startTime - a.endTime >= 60000

\* The engine-on records of the input strictly between trips a and b.
OnBetween(a, b) ==
    { i \in 1..Len(tin) : EngineOnRecord(tin[i]) /\ a.endTime < tin[i].ts /\ tin[i].ts < b.startTime }

\* C17 as claimed: two trips adjacent in the trips the pass produces are at
\* least 60 s apart and no engine-on record lies strictly between them.
C17_AdjacentTripsQuietBetween ==
    \A n \in 1..(Len(trips) - 1) :
        /\ QuietGap(trips[n], trips[n + 1])
        /\ OnBetween(trips[n], trips[n + 1]) = {}

\* C17 as amended: two trips adjacent among the closed trips are at least 60 s
\* apart with no engine-on record strictly between them; two trips adjacent
\* among the emitted trips are at least 60 s apart and every engine-on record
\* strictly between them belongs to a closed trip that was discarded.
C17_AdjacentTripsQuietButForDiscarded ==
    /\ \A n \in 1..(Len(closedTrips) - 1) :
          /\ QuietGap(closedTrips[n].trip, closedTrips[n + 1].trip)
          /\ OnBetween(closedTrips[n].trip, closedTrips[n + 1].trip) = {}
    /\ \A n \in 1..(Len(trips) - 1) :
          /\ QuietGap(trips[n], trips[n + 1])
          /\ \A i \in OnBetween(trips[n], trips[n + 1]) :
                \E k \in Range(closedTrips) : ~k.emitted /\ i \in Range(k.recs)

\* C17 witness: two emitted trips with a discarded trip between them.
C17_Witness ==
    /\ tpc = "done"
    /\ Len(trips) = 2
    /\ Len(closedTrips) = 3
    /\ ~closedTrips[2].emitted
    /\ OnBetween(trips[1], trips[2]) # {}

\* The step takes one record of the list through the segmentation loop.
RecordStep == tidx' = tidx + 1

\* The step closes a trip.
CloseStep == Len(closedTrips') = Len(closedTrips) + 1

\* The position of the last engine-on record before position i (0 if none).
LastOnBefore(i) ==
    LET on == {0} \cup { j \in 1..(i - 1) : EngineOnRecord(tin[j]) }
    IN  CHOOSE m \in on : \A j \in on : j <= m

\* C18: while a trip is open, a record closes it exactly when the record is
\* engine-off and more than 60000 ms later than the last engine-on record; the
\* closed trip ends at the time and odometer of that last engine-on record;
\* the trip buffers are then empty, and an engine-on record met with no trip
\* open starts a new trip at itself.
C18_TripClosesAfterSixtySecondsOff ==
    [][ RecordStep =>
          LET r    == tin[tidx]
              last == LastOnBefore(tidx)
          IN  /\ currentTrip.open =>
                    (CloseStep <=> (~EngineOnRecord(r) /\ r.ts - tin[last].ts > 60000))
              /\ ~currentTrip.open => ~CloseStep
              /\ CloseStep =>
                    /\ Last(closedTrips').trip.endTime = tin[last].ts
                    /\ Last(closedTrips').trip.endOdometer = tin[last].totalOdometer
                    /\ ~currentTrip'.open
                    /\ tripRecords' = <<>>
              /\ (~currentTrip.open /\ EngineOnRecord(r)) =>
                    /\ currentTrip'.open
                    /\ currentTrip'.startTime = r.ts
                    /\ tripRecords' = <<tidx>>
      ]_vars

\* C18 witness: a trip stayed open over an engine-off record exactly 60000 ms
\* after its last engine-on record, was closed by a later one, and the next
\* engine-on record has opened a new trip.
C18_Witness ==
    /\ Len(closedTrips) = 1
    /\ currentTrip.open
    /\ \E i \in Range(closedTrips[1].recs) : \E j \in (i + 1)..(closedTrips[1].at - 1) :
          /\ ~EngineOnRecord(tin[j])
          /\ tin[j].ts - tin[i].ts = 60000
          /\ LastOnBefore(j) = i
    /\ tin[closedTrips[1].at].ts > closedTrips[1].trip.endTime + 60000

\* The emission test of the claim on a closed trip.
Qualifies(trip) ==
    trip.durationMinutes >= 2 \/ (trip.hasDistance /\ trip.distanceMeters > 100)

\* C19 as claimed: once the response is made, a closed trip is in the trips
\* of the response if and only if durationMinutes >= 2 or distanceMeters > 100.
C19_ClosedTripInOutputIffQualifies ==
    tpc = "done" =>
        \A k \in Range(closedTrips) : (k.trip \in Range(tout)) <=> Qualifies(k.trip)

\* C19 as amended: a closed trip is added to the trips list if and only if
\* durationMinutes >= 2 or distanceMeters > 100, and otherwise dropped; either
\* way the loop goes on with no trip open and an empty buffer; the response
\* carries the `limit` latest trips of that list, latest first.
C19_ClosedTripListedIffQualifies ==
    [][ /\ CloseStep =>
            LET closed == Last(closedTrips').trip
            IN  /\ trips' = IF Qualifies(closed) THEN Append(trips, closed) ELSE trips
                /\ ~currentTrip'.open
                /\ tripRecords' = <<>>
                /\ tidx' = tidx + 1
        /\ (RecordStep /\ ~CloseStep) => trips' = trips
        /\ (tpc = "sort" /\ tpc' = "done") =>
            /\ (~tlimit'.given \/ tlimit'.n = 0) => Len(tout') = Min(Len(trips), 20)
            /\ (tlimit'.given /\ tlimit'.n > 0) =>
                  Len(tout') = Min(Len(trips), Min(tlimit'.n, 100))
            /\ Range(tout') \subseteq Range(trips)
            /\ \A n \in 1..(Len(tout') - 1) : tout'[n].startTime >= tout'[n + 1].startTime
            /\ \A t \in Range(trips) \ Range(tout') : \A u \in Range(tout') :
                  t.startTime <= u.startTime
      ]_vars

\* C19 witness: of three closed trips the middle one was discarded, the other
\* two are listed, and the response with limit 1 carries only the latest.
C19_Witness ==
    /\ tpc = "done"
    /\ Len(closedTrips) = 3
    /\ ~Qualifies(closedTrips[2].trip)
    /\ Len(trips) = 2
    /\ trips[2] = closedTrips[3].trip
    /\ tout = <<trips[2]>>

\* The number of records of the argument that bear accelerometer X and Y.
AccelCount == Cardinality({ i \in DOMAIN brecs : brecs[i].hasAccel })

\* C20: calculateDriverBehavior returns null exactly when fewer than 5 of its
\* records bear accelerometer X and Y, and when it returns a result,
\* driverScore and efficiencyScore are both integers from 0 to 100.
C20_ScoresWithinZeroToHundred ==
    bpc = "done" =>
        /\ bres.null <=> AccelCount < 5
        /\ ~bres.null => /\ bres.driverScore \in 0..100
                         /\ bres.efficiencyScore \in 0..100

\* C20 witness: a result for exactly 5 records with accelerometer data, with
\* events counted and a driver score below 100.
C20_Witness ==
    /\ bpc = "done"
    /\ AccelCount = 5
    /\ ~bres.null
    /\ bres.hardBraking + bres.hardAcceleration + bres.harshCornering > 0
    /\ bres.driverScore < 100

EventTypes == {"brake", "accel", "corner"}

\* Of the ascending times in over, those the claim takes for counted: the
\* first, and each one more than 2000 ms after the one counted before it.
RECURSIVE CountedOf(_, _)
CountedOf(over, n) ==
    IF n = 0 THEN <<>>
    ELSE LET before == CountedOf(over, n - 1)
         IN  IF before = <<>> \/ over[n] - Last(before) > 2000
             THEN Append(before, over[n]) ELSE before

\* C21: in one analysed trip any two counted events of one type are more than
\* 2000 ms apart; a sample over the threshold at most 2000 ms after the last
\* counted event of its type is not counted and leaves the cooldown running
\* from that event; the event counts are the numbers of counted events.
C21_SameTypeEventsCoolDown ==
    (bpc = "done" /\ ~bres.null) =>
        /\ \A t \in EventTypes :
              /\ \A n \in 1..(Len(bres.counted[t]) - 1) :
                    bres.counted[t][n + 1] - bres.counted[t][n] > 2000
              /\ bres.counted[t] = CountedOf(bres.over[t], Len(bres.over[t]))
        /\ bres.hardBraking = Len(bres.counted.brake)
        /\ bres.hardAcceleration = Len(bres.counted.accel)
        /\ bres.harshCornering = Len(bres.counted.corner)

\* C21 witness: three braking samples 1000 ms apart, of which only the first
\* is counted: the third is exactly 2000 ms after it.
C21_Witness ==
    /\ bpc = "done"
    /\ ~bres.null
    /\ Len(bres.over.brake) = 3
    /\ bres.over.brake[3] - bres.over.brake[1] = 2000
    /\ bres.counted.brake = <<bres.over.brake[1]>>

\* C24: the response carries at most min(limit, 100) trips, 20 when no limit
\* is given, and its count is the number of trips it carries and not negative,
\* whatever the limit, 0 and negative integers included.
C24_LimitBoundsTripsAndCount ==
    tpc = "done" =>
        /\ Len(tout) <= (IF tlimit.given THEN Min(tlimit.n, 100) ELSE 20)
        /\ tcount = Len(tout)
        /\ tcount >= 0

\* C27: while a trip is open, a record that is engine-on, or engine-off at
\* most 60 s after the last engine-on record, is appended to the trip's
\* record set.
C27_OpenTripCollectsEveryRecord ==
    [][ (RecordStep /\ currentTrip.open) =>
          LET r == tin[tidx]
          IN  (EngineOnRecord(r) \/ r.ts - tin[LastOnBefore(tidx)].ts <= 60000)
                  => tripRecords' = Append(tripRecords, tidx)
      ]_vars

\* The trip that closing the open trip now would give.
OpenRun == closeTrip(tin, currentTrip, tripRecords, Len(tin))

\* C28: once the list has been gone through, every engine-on run that meets
\* the emission threshold is a trip of the list the output is taken from, the
\* run still open at the last record included.
C28_EveryQualifyingRunIsATrip ==
    tpc \in {"sort", "done"} =>
        /\ \A k \in Range(closedTrips) : Qualifies(k.trip) => k.trip \in Range(trips)
        /\ (currentTrip.open /\ Qualifies(OpenRun)) =>
              \E t \in Range(trips) :
                  t.startTime = OpenRun.startTime /\ t.endTime = OpenRun.endTime

\* C29: every emitted trip that has a distance has non-negative
\* distanceMeters and distanceKm, and a non-negative avgSpeedTotal if it has
\* one.
C29_DistanceNeverNegative ==
    \A t \in Range(trips) :
        /\ t.hasDistance => (t.distanceMeters >= 0 /\ t.distanceKm10 >= 0)
        /\ t.hasAvgSpeedTotal => t.avgSpeedTotal10 >= 0

\* 3600 times the speed-times-interval integral of the claim over the records
\* at positions pos[1..i]: the speed of each record but the last, taken from
\* obdVehicleSpeed if it has one and from gps.speed otherwise, times the time
\* to the next record.
RECURSIVE Integral(_, _)
Integral(pos, i) ==
    IF i < 2 THEN 0
    ELSE (IF tin[pos[i - 1]].obdVehicleSpeed > 0 THEN tin[pos[i - 1]].obdVehicleSpeed
          ELSE tin[pos[i - 1]].gpsSpeed) * (tin[pos[i]].ts - tin[pos[i - 1]].ts)
         + Integral(pos, i - 1)

C26_FramesNeverInsertDevices ==
    [][ \A k \in Imeis : devices'[k].present => devices[k].present ]_vars

\* The (timestamp, imei) pairs of a set of record documents.
KeysOf(docs) == { <<d.timestamp, d.imei>> : d \in docs }

\* The step takes one packet through the import loop.
ImportStep == imp'.pidx = imp.pidx + 1 /\ imp'.run = imp.run

\* C25: the import inserts no record whose (timestamp, imei) the collection
\* already has, and none twice; a record it finds there is counted as
\* skipped, never as an error (errors counts the packets that fail to
\* decode); so the second run over the same packets inserts nothing and
\* leaves the records collection as the first run left it.
C25_ReplayImportIsIdempotent ==
    [][ /\ ImportStep =>
            LET new == records' \ records
            IN  /\ records \subseteq records'
                /\ KeysOf(new) \cap KeysOf(records) = {}
                /\ Cardinality(KeysOf(new)) = Cardinality(new)
                /\ imp'.imported = imp.imported + Cardinality(new)
                /\ imp'.errors = imp.errors +
                      (IF ipackets[imp.pidx].imei # Null
                          /\ ImportDecoded[ipackets[imp.pidx].frame].error THEN 1 ELSE 0)
                /\ imp.run = 2 => (new = {} /\ imp'.imported = 0)
        /\ imp'.pc = "done" => records' = imp'.after1
      ]_vars

\* C25 witness: both runs are over; the first inserted records, the second
\* skipped them, and the only error of the second run is a packet that does
\* not decode.
C25_Witness ==
    /\ imp.pc = "done"
    /\ imp.skipped >= 3
    /\ imp.errors = 1
    /\ imp.imported = 0
    /\ \E d \in records : d.frame[1] = "import1"

\* The requests that have arrived.
Arrived == { r \in ReqIds : reqs[r].st # "none" }

Registrations ==
    { r \in Arrived : /\ reqs[r].route = "POST /devices"
                      /\ reqs[r].key = API_KEY
                      /\ reqs[r].st = "done" }

\* C23: with the store up and no DELETE request made, POST /devices is
\* answered 400 exactly when imei is not a string of 15 digits, and otherwise
\* 201 or 409; of two requests for one imei one is answered 409 and the other
\* 201 or, if the device was registered before, 409; and the device is
\* registered afterwards.
C23_ConcurrentRegistrationsOneCreated ==
    (db /\ \A r \in Arrived : reqs[r].route # "DELETE /devices/:imei") =>
        /\ \A r \in Registrations :
              /\ reqs[r].status = 400 <=> InvalidImei(reqs[r].imei)
              /\ reqs[r].status \in {400, 201, 409}
              /\ reqs[r].status \in {201, 409} => devices[reqs[r].imei].present
        /\ \A r1, r2 \in Registrations :
              (r1 # r2 /\ reqs[r1].imei = reqs[r2].imei /\ reqs[r1].status # 400) =>
                  {reqs[r1].status, reqs[r2].status} \in {{201, 409}, {409}}

\* The driver score the scoring rules give to event counts b, a, c on a trip of
\* m minutes: 100 less the normalized penalty, rounded; every quantity is
\* multiplied by ten times the duration factor to stay within the integers.
RuleScore(b, a, c, m) ==
    LET factor10 == IF m < 10 THEN 10 ELSE IF m > 60 THEN 60 ELSE m
        totalRaw == (IF 4 * b > 25 THEN 25 ELSE 4 * b) + (IF 2 * a > 20 THEN 20 ELSE 2 * a)
                    + (IF 3 * c > 15 THEN 15 ELSE 3 * c)
        floor10  == IF b + c > 0 THEN 3 * factor10 ELSE 0
        norm10   == IF 10 * totalRaw > floor10 THEN 10 * totalRaw ELSE floor10
    IN  (2 * (100 * factor10 - norm10) + factor10) \div (2 * factor10)

\* C31: the driver score is 100 less max(totalRaw / durationFactor, 3 if there
\* is a braking or cornering event, else 0), with brake*4 capped at 25, accel*2
\* at 20, corner*3 at 15 and the factor within [1, 6] (and capped at 95 on low
\* confidence); so a trip with a braking or cornering event scores at most 97,
\* no trip scores under 40, and with the duration and the confidence level
\* unchanged one more event of any type never raises the score.
C31_DriverScoreFormula ==
    (bpc = "done" /\ ~bres.null) =>
        LET b == bres.hardBraking
            a == bres.hardAcceleration
            c == bres.harshCornering
            m == bres.tripDurationMinutes
            rule == RuleScore(b, a, c, m)
        IN  /\ bres.driverScore = IF bres.confidenceLevel = "low" /\ rule > 95 THEN 95 ELSE rule
            /\ b + c > 0 => bres.driverScore <= 97
            /\ bres.driverScore >= 40
            /\ \A b2 \in b..(b + 1), a2 \in a..(a + 1), c2 \in c..(c + 1) :
                  finalDriverScore(driverScoreOf(b2, a2, c2, m), bres.confidenceLevel)
                      <= bres.driverScore

\* C31 witness: one braking event on a trip of 20 minutes or more, where the
\* penalty of 4 divided by the duration factor is under the floor of 3 points.
C31_Witness ==
    /\ bpc = "done"
    /\ ~bres.null
    /\ bres.hardBraking = 1
    /\ bres.hardAcceleration + bres.harshCornering = 0
    /\ bres.tripDurationMinutes >= 20
    /\ bres.confidenceLevel = "high"
    /\ bres.driverScore = 97

\* C32: the confidence level is high, medium or low as the reasons other than
\* short_trip number 0, 1 or at least 2; short_trip alone leaves the level
\* high; and on a low level the returned driverScore is at most 95.
C32_ConfidenceLevelByReasons ==
    (bpc = "done" /\ ~bres.null) =>
        LET n == Cardinality({ r \in bres.reasons : r # "short_trip" })
        IN  /\ n = 0 <=> bres.confidenceLevel = "high"
            /\ n = 1 <=> bres.confidenceLevel = "medium"
            /\ n >= 2 <=> bres.confidenceLevel = "low"
            /\ bres.reasons = {"short_trip"} => bres.confidenceLevel = "high"
            /\ bres.confidenceLevel = "low" => bres.driverScore <= 95

\* C32 witness: a short trip without an event, with no satellites in view and
\* accelerometer data in under 30% of its records: two reasons beside
\* short_trip, a low level, and the score of 100 returned as 95.
C32_Witness ==
    /\ bpc = "done"
    /\ ~bres.null
    /\ bres.reasons = {"poor_gnss", "low_accel_coverage", "short_trip"}
    /\ bres.confidenceLevel = "low"
    /\ bres.hardBraking + bres.hardAcceleration + bres.harshCornering = 0
    /\ bres.driverScore = 95

\* v is the median of a, b and c: one of them, with at most one of the three
\* under it and at most one over it.
IsMedianOf(v, a, b, c) ==
    LET w == <<a, b, c>>
    IN  /\ v \in {a, b, c}
        /\ Cardinality({ k \in 1..3 : w[k] < v }) <= 1
        /\ Cardinality({ k \in 1..3 : w[k] > v }) <= 1

\* filtered is raw after the 3-sample sliding median with the two ends
\* passed through.
IsMedianFiltered(filtered, raw) ==
    /\ Len(filtered) = Len(raw)
    /\ Len(raw) < 3 => filtered = raw
    /\ Len(raw) >= 1 => filtered[1] = raw[1] /\ filtered[Len(raw)] = raw[Len(raw)]
    /\ \A k \in 2..(Len(raw) - 1) :
          IsMedianOf(filtered[k], raw[k - 1], raw[k], raw[k + 1])

\* Sample k of a baseline-subtracted series is a lone spike: not the first or
\* the last sample, off the baseline, with both neighbours at the baseline.
LoneSpike(raw, k) ==
    /\ k \in 2..(Len(raw) - 1)
    /\ raw[k] # 0
    /\ raw[k - 1] = 0
    /\ raw[k + 1] = 0

\* C33: the filtered X and Y series are the baseline-subtracted series after
\* medianFilter: of the same length, the first and last samples unchanged,
\* every sample between the median of itself and its two neighbours; and the
\* record of a lone interior spike of X counts as no braking or acceleration
\* event, that of a lone interior spike of Y as no cornering event.
C33_MedianFilterDropsLoneSpike ==
    (bpc = "done" /\ ~bres.null) =>
        LET pos == accelRecords(brecs)
        IN  /\ IsMedianFiltered(bres.xFiltered, bres.xRaw)
            /\ IsMedianFiltered(bres.yFiltered, bres.yRaw)
            /\ Len(bres.xRaw) = Len(pos)
            /\ \A k \in DOMAIN pos :
                  /\ LoneSpike(bres.xRaw, k) =>
                        /\ brecs[pos[k]].ts \notin Range(bres.counted.brake)
                        /\ brecs[pos[k]].ts \notin Range(bres.counted.accel)
                  /\ LoneSpike(bres.yRaw, k) =>
                        brecs[pos[k]].ts \notin Range(bres.counted.corner)

\* C33 witness: a trip whose one braking sample, 200 mG under the baseline at
\* 36 km/h, lies between two samples at the baseline, and which counts no
\* braking event.
C33_Witness ==
    /\ bpc = "done"
    /\ ~bres.null
    /\ \E k \in DOMAIN bres.xRaw :
          /\ LoneSpike(bres.xRaw, k)
          /\ bres.xRaw[k] < 0 - HARD_BRAKE_THRESHOLD
          /\ brecs[accelRecords(brecs)[k]].speed >= MIN_SPEED_FOR_EVENTS
    /\ bres.hardBraking = 0

\* The step answers the login frame that data event seq of connection c
\* brought: after the device lookup, or at once when there is no database.
LoginAnswerStep(c, seq) ==
    \/ \E l \in lookups \ lookups' : l.c = c /\ l.seq = seq
    \/ ~db /\ DataStep(c) /\ ImeiOf[lastChunk'[c]] # Null /\ seq = nrx'[c]

\* The step handles a data event of connection c, numbered seq, whose bytes
\* are no login frame and decode as an AVL frame.
AvlDecodedStep(c, seq) ==
    DataStep(c) /\ ImeiOf[lastChunk'[c]] = Null /\ ~DecodedOf[lastChunk'[c]].error
                /\ seq = nrx'[c]

\* C34: a step writes to a device connection at most one thing: the byte 0x00
\* or 0x01 in answer to a login frame, or 4 bytes in answer to a data event
\* that decoded as an AVL frame; a tick of the poll ticker that logs, the
\* firing of the auth timer and the end/error handlers write nothing.
C34_WireCarriesRepliesOnly ==
    [][\A c \in Conns :
         /\ \/ wire'[c] = wire[c]
            \/ /\ Len(wire'[c]) = Len(wire[c]) + 1
               /\ SubSeq(wire'[c], 1, Len(wire[c])) = wire[c]
               /\ \/ /\ Last(wire'[c]).bytes \in {<<0>>, <<1>>}
                     /\ LoginAnswerStep(c, Last(wire'[c]).seq)
                  \/ /\ Len(Last(wire'[c]).bytes) = 4
                     /\ AvlDecodedStep(c, Last(wire'[c]).seq)
         /\ ( \/ polls'[c] # polls[c]
              \/ authTimeout[c] = "armed" /\ authTimeout'[c] = "fired"
              \/ sock[c] = "open" /\ sock'[c] = "closed" )
               => wire'[c] = wire[c]]_vars

\* C34 witness: a connection that was polled and then ended, with a login ack
\* and one AVL ack on its wire and nothing else.
C34_Witness ==
    \E c \in Conns :
        /\ polls[c] = MaxPolls
        /\ sock[c] = "closed"
        /\ wire[c] = <<[seq |-> 1, bytes |-> <<1>>], [seq |-> 2, bytes |-> <<0, 0, 0, 1>>]>>

\* The write of connection c's data event seq that stores its records.
SaveRecordsOf(c, seq) == { w \in writes : w.c = c /\ w.seq = seq /\ w.op = "saveRecords" }

\* C35: with a store that rejects nothing but duplicates, once the writes of
\* an acknowledged frame have settled, the records collection holds a record
\* of the session's IMEI for every timestamp of the frame, newly inserted or
\* there before.
C35_AckedRecordsAllStored ==
    \A c \in Conns : \A n \in 1..Len(wire[c]) :
        (Len(wire[c][n].bytes) = 4
         /\ \A w \in writes : (w.c = c /\ w.seq = wire[c][n].seq) => w.st # "pending")
            => \A w \in SaveRecordsOf(c, wire[c][n].seq) : \A i \in DOMAIN w.stamps :
                  \E d \in records : d.imei = w.imei /\ d.timestamp = w.stamps[i]

\* The first four bytes of a chunk are there and are not 00 00 00 00.
PreambleNotZero(ch) == Len(Bytes[ch]) >= 4 /\ SubSeq(Bytes[ch], 1, 4) # Zeros(4)

\* C36: decodeCodec8 returns an error for a frame whose preamble is not
\* 0x00000000, and the data event that brings such a frame writes nothing to
\* the connection and issues no store write.
C36_NonZeroPreambleRefused ==
    [][\A c \in Conns :
         (DataStep(c) /\ ImeiOf[lastChunk'[c]] = Null /\ PreambleNotZero(lastChunk'[c]))
            => /\ DecodedOf[lastChunk'[c]].error
               /\ wire'[c] = wire[c]
               /\ IssuedBy(writes', c) = IssuedBy(writes, c)]_vars

\* The server has destroyed connection c and nothing of its handlers is left
\* to run: the auth timer has fired or was cleared, no login awaits its device.
ServerClosed(c) ==
    /\ sock[c] = "destroyed"
    /\ authTimeout[c] # "armed"
    /\ \A l \in lookups : l.c # c

\* C37: once the server has destroyed a connection and its handlers have run,
\* the connection has no entry in the clients map and its poll ticker is
\* stopped; so when every connection is closed the map is empty and no
\* ticker is running.
C37_ServerCloseReleasesSession ==
    /\ \A c \in Conns : ServerClosed(c) => (c \notin clients /\ ~interval[c])
    /\ (\A c \in Sockets : sock[c] = "closed" \/ sock[c] = "none" \/ ServerClosed(c))
           => (clients = {} /\ \A c \in Sockets : ~interval[c])

\* C38: the auth timer never closes a connection on which the login frame of
\* a device that is registered and approved has arrived, even while the
\* device lookup of that frame has not returned.
C38_TimerSparesLoginInFlight ==
    [][\A c \in Conns :
         (authTimeout[c] = "armed" /\ authTimeout'[c] = "fired"
          /\ sock[c] = "open" /\ sock'[c] = "destroyed")
            => ~\E l \in lookups : l.c = c /\ IsApproved(l.imei)]_vars

\* C39: once a connection has an accepted login, its deviceIMEI stays what
\* it is, and the store writes of its later frames carry that IMEI.
C39_SessionImeiNeverChanges ==
    [][\A c \in Conns :
         deviceIMEI[c] # Null
            => /\ deviceIMEI'[c] = deviceIMEI[c]
               /\ \A w \in writes' \ writes :
                     (w.c = c /\ w.st = "pending") => w.imei = deviceIMEI[c]]_vars

\* The IMEI of the login of the connection that wrote line i of the log.
OwnImei(i) ==
    LET own == { j \in 1..(i - 1) : ilog[j].kind = "login" /\ ilog[j].client = ilog[i].client }
    IN  IF own = {} THEN Null ELSE ilog[CHOOSE j \in own : \A k \in own : k <= j].imei

\* C40: every record the import stored from a log carries the IMEI with which
\* the connection that sent its frame had logged in.
C40_ImportedRecordHasOwnImei ==
    imp.pc # "parse" =>
        \A d \in records :
            d.frame[1] \in {"import1", "import2"}
                => d.imei = OwnImei(ipackets[d.frame[2]].line)

=============================================================================
